---- MODULE Spec2Model ----
(***************************************************************************)
(* Orion: the GEPA pattern miner (gepa.py) and the command-line           *)
(* dispatcher of learned tools (amans_cli_orion.py).                       *)
(*                                                                         *)
(* Two programs share one durable file, new_tools.json:                    *)
(*   - the CLI (IntelligentCLI.run): user turns, trigger dispatch, the     *)
(*     bounded sub-loop of a learned tool, the general tool path, and the  *)
(*     CACHE THIS command that mines the saved thread;                     *)
(*   - gepa.py's main(): one mining pass followed by one execution of the  *)
(*     first learned tool through GEPA.execute_intelligent_tool.           *)
(* Every language-model call and every tool call is an environment step:   *)
(* it returns any value of its (bounded) range, or raises.                 *)
(*                                                                         *)
(* Names of functions and of learned tools are sequences of tokens; the    *)
(* token "trigger_" stands for that substring, so that prefixing and       *)
(* str.replace are computed, not assumed.                                  *)
(***************************************************************************)
EXTENDS Integers, Sequences, FiniteSets, TLC

(***************************************************************************)
(* Bounds of the model.                                                    *)
(***************************************************************************)
MaxCalls == 2
MaxSegments == 2

(***************************************************************************)
(* Python values.                                                          *)
(***************************************************************************)
NoneValue == "<None>"
EmptyDict == <<>>

\* dict.get(key, default)
Get(d, k, default) == IF k \in DOMAIN d THEN d[k] ELSE default

\* all sequences over S of length at most n
BoundedSeq(S, n) == UNION {[1..k -> S] : k \in 0..n}

(***************************************************************************)
(* Function names and tool names.                                          *)
(***************************************************************************)
TriggerPrefix == "trigger_"

CheckTimeAvailability == <<"check_time_availability">>
SearchRestaurants == <<"search_restaurants">>
CreateCalendarEvent == <<"create_calendar_event">>
UnknownTool == <<"unknown_tool">>

\* tool_usage.tools: the base schema (three representatives of the 28 entries)
tools == <<CheckTimeAvailability, SearchRestaurants, CreateCalendarEvent>>

\* TOOL_MAP: name -> callable
TOOL_MAP == {CheckTimeAvailability, SearchRestaurants, CreateCalendarEvent}

\* tool names a synthesis can produce; the last one itself starts with "trigger_"
NameA == <<"a">>
NameB == <<"b">>
NameTA == <<TriggerPrefix, "a">>

\* f"trigger_{tool_name}"
TriggerFunctionName(tool_name) == <<TriggerPrefix>> \o tool_name

\* func_name.startswith("trigger_")
StartsWithTrigger(func_name) == Len(func_name) > 0 /\ func_name[1] = TriggerPrefix

\* func_name.replace("trigger_", ""): every occurrence is removed
IsNotPrefixToken(t) == t # TriggerPrefix
RecoverToolName(func_name) == SelectSeq(func_name, IsNotPrefixToken)

(***************************************************************************)
(* The learned-tool store: a Python dict, i.e. key/value pairs in          *)
(* insertion order.                                                        *)
(***************************************************************************)
EmptyStore == <<>>

Keys(store) == {store[i].key : i \in DOMAIN store}

Lookup(store, k) == store[CHOOSE i \in DOMAIN store : store[i].key = k].def

\* a list's append in place of the dict's item assignment
UpsertAlwaysAppends(store, k, d) == Append(store, [key |-> k, def |-> d])

\* store[k] = d
Upsert(store, k, d) ==
    IF k \in Keys(store)
    THEN [i \in DOMAIN store |->
            IF store[i].key = k THEN [key |-> k, def |-> d] ELSE store[i]]
    ELSE Append(store, [key |-> k, def |-> d])

StoreDefs(store) == {store[i].def : i \in DOMAIN store}

(***************************************************************************)
(* Threads (the files of example_threads/): turn-numbered records.         *)
(***************************************************************************)
\* user asks to book; availability is checked; the event is created
ScenarioAThread ==
    [turns |-> <<
        [turn |-> 1, type |-> "user_input"],
        [turn |-> 2, type |-> "assistant_tool_request",
         tool_calls |-> <<CheckTimeAvailability>>],
        [turn |-> 3, type |-> "tool_result", tool_name |-> CheckTimeAvailability,
         success |-> TRUE],
        [turn |-> 4, type |-> "assistant_tool_request",
         tool_calls |-> <<CreateCalendarEvent>>],
        [turn |-> 5, type |-> "tool_result", tool_name |-> CreateCalendarEvent,
         success |-> TRUE],
        [turn |-> 6, type |-> "assistant_response"] >>]

\* one user turn and one assistant turn, no tool call
ScenarioBThread ==
    [turns |-> <<
        [turn |-> 1, type |-> "user_input"],
        [turn |-> 2, type |-> "assistant_response"] >>]

Threads == {ScenarioAThread, ScenarioBThread}

\* the fixed thread file that gepa.py's main() mines: a scheduling conversation
ExampleThread == ScenarioAThread

NoThread == [turns |-> <<>>]

\* a Python value that is a list, or None
PyList(seq) == [is_none |-> FALSE, items |-> seq]
PyNone == [is_none |-> TRUE]
NoSegments == PyList(<<>>)

\* [t for t in thread_data["turns"] if start <= t["turn"] <= end]
InSegment(segment, t) ==
    /\ segment.turn_id_for_split_start <= t.turn
    /\ t.turn <= segment.turn_id_for_split_end

SegmentTurns(segment, thread) ==
    LET Keep(t) == InSegment(segment, t) IN SelectSeq(thread.turns, Keep)

\* the tool names requested inside a sequence of turns
ToolsRequested(turn_seq) ==
    UNION {{turn_seq[i].tool_calls[j] : j \in DOMAIN turn_seq[i].tool_calls} :
             i \in {k \in DOMAIN turn_seq : turn_seq[k].type = "assistant_tool_request"}}

(***************************************************************************)
(* Ranges of the language model's structured outputs.  The model is        *)
(* opaque: each call may return any element of its range, return no tool   *)
(* call, return unparsable arguments, or raise.                            *)
(***************************************************************************)
\* items of "segments" in analyze_conversation_segments
SegmentCandidates == {
    [turn_id_for_split_start |-> 1, turn_id_for_split_end |-> 6,
     user_objective_description |-> "schedule", is_complex_workflow |-> TRUE,
     user_turns_in_segment |-> 1, assistant_turns_in_segment |-> 3],
    [turn_id_for_split_start |-> 1, turn_id_for_split_end |-> 2,
     user_objective_description |-> "dine", is_complex_workflow |-> TRUE,
     user_turns_in_segment |-> 1, assistant_turns_in_segment |-> 1],
    [turn_id_for_split_start |-> 1, turn_id_for_split_end |-> 2,
     user_objective_description |-> "dine", is_complex_workflow |-> FALSE,
     user_turns_in_segment |-> 1, assistant_turns_in_segment |-> 1],
    [turn_id_for_split_start |-> 3, turn_id_for_split_end |-> 6,
     user_objective_description |-> "dine",
     user_turns_in_segment |-> 2, assistant_turns_in_segment |-> 2],
    [turn_id_for_split_start |-> 1, turn_id_for_split_end |-> 6,
     user_objective_description |-> "schedule", is_complex_workflow |-> TRUE] }

\* values of "workflow_analysis" in analyze_workflow_complexity
WorkflowAnalyses ==
    {EmptyDict} \cup
    {[workflow_complexity_score |-> f.score,
      optimization_potential |-> p,
      context_dependencies |-> f.deps,
      user_had_to_guide_process |-> f.guided] :
        p \in {"LOW", "MEDIUM", "HIGH"},
        f \in {[score |-> 3, deps |-> <<"edge">>, guided |-> TRUE],
               [score |-> 7, deps |-> <<>>, guided |-> FALSE],
               [score |-> 7, deps |-> <<"edge">>, guided |-> FALSE]}}

\* values of "tool_evaluation" in evaluate_tool_necessity
ToolEvaluations ==
    {EmptyDict, [new_tool_needed |-> TRUE], [new_tool_needed |-> FALSE]}

\* values of "new_tool_description" in create_optimized_tool
ToolDescriptions == {
    [tool_name |-> NameA, objective |-> "schedule",
     tool_sequence |-> <<CheckTimeAvailability>>],
    [tool_name |-> NameA, objective |-> "schedule",
     tool_sequence |-> <<CheckTimeAvailability, CreateCalendarEvent>>,
     max_internal_turns |-> 5],
    [tool_name |-> NameTA, objective |-> "dine",
     tool_sequence |-> <<SearchRestaurants>>, max_internal_turns |-> 0],
    [tool_name |-> <<>>, objective |-> "dine",
     tool_sequence |-> <<SearchRestaurants>>, max_internal_turns |-> 2],
    EmptyDict }

\* the outcomes of one structured model call whose arguments range over Values
\* "null_field": the arguments parse to an object whose result field is null
StructuredOutcomes(Values) ==
    {[kind |-> "raise"], [kind |-> "no_tool_call"], [kind |-> "bad_json"],
     [kind |-> "null_field"]}
    \cup {[kind |-> "args", value |-> v] : v \in Values}

(***************************************************************************)
(* State.                                                                  *)
(***************************************************************************)
VARIABLES
    new_tools_json,      \* the durable store: [exists, content]
    pc,                  \* position of the running program; "off": none runs
    entry,               \* which program runs: "cli" or "gepa_main"
    \* IntelligentCLI
    intelligent_tools,   \* the dispatcher's cached copy of the store
    conversation,        \* bool(conversation): is run()'s message list non-empty
    combined_tools,      \* run()'s combined_tools: the names of the offered functions
    tool_calls,          \* assistant_message.tool_calls of the current turn
    turn_dispatched,     \* history: learned tools dispatched in this user turn
    turn_general,        \* history: calls handed to TOOL_MAP by execute_tools in this turn
    \* execute_intelligent_tool (both variants)
    variant,             \* "cli" (IntelligentCLI) or "gepa" (GEPA)
    sub_tool_def,        \* tool_def
    turn,                \* the loop variable of "for turn in range(...)"
    sub_state,           \* DISPATCHED, MODEL_CALL, TOOL_CALL_ROUND, ... or IDLE
    sub_calls,           \* assistant_message.tool_calls inside the sub-loop
    sub_idx,             \* index of the next call of sub_calls to execute
    tool_results,        \* tool_results of the current round
    sub_result,          \* the value returned by execute_intelligent_tool
    sub_raised,          \* history: sources of the exceptions raised in this dispatch
    schema_invocations,  \* history: model invocations given tools= in this dispatch
    tool_rounds,         \* history: tool-call rounds started in this dispatch
    \* GEPA
    existing_tools,      \* self.existing_tools
    thread_data,         \* the thread being mined
    segments,            \* the value segment_conversation returned, until filtered
    filtered_segments,   \* process_thread's filtered_segments
    seg_idx,             \* index of the segment being processed
    workflow,            \* workflow of the current segment
    evaluation,          \* evaluation of the current segment
    tool_creation_failed,\* history: the loop body just ended with "Tool creation failed"
    last_thread,         \* history: the thread of the pass the preceding run completed
    \* one call of execute_tools, taken alone
    b_variant,           \* "cli" (amans_cli_orion.py) or "backend" (learning_agent.py)
    b_calls,             \* the requested calls, tool_calls
    b_state,             \* "ready", "returned" or "raised"; "idle": no such call
    b_results,           \* the returned tool_results
    b_invoked,           \* history: the TOOL_MAP invocations made, with their arguments
    \* one CLI session and the thread files it writes
    s_conversation,      \* run's conversation, a list of messages
    s_pc,                \* "input", "closed" or "crashed"; "idle": no such session
    s_clock,             \* datetime.now() in whole seconds
    s_files,             \* example_threads/: file name (its second) -> JSON text
    most_recent_thread,  \* self.most_recent_thread
    \* the backend's LearningAgent and the requests it is serving
    active_conversations,\* session id -> the list object of the session
    conversation_lists,  \* the list objects: identity -> messages
    requests,            \* per request: its coroutine's position and locals
    saved_threads,       \* history: the list objects save_thread was called with
    \* mining passes of separate GEPA instances on one store file
    shared_tools_file,   \* new_tools.json as the passes share it: the tool names in it
    passes,              \* per pass: its position, self.existing_tools, what it created
    \* calls of create_calendar_event by separate processes on one calendar file
    calendar_json,       \* data_lake/calendar.json: the list calendar_events
    callers,             \* per call: its position, its local events and new_event
    stored_before,       \* history: the calendar before the first call
    \* the backend's WebSocketManager
    active_connections,  \* the connection ids that are keys of active_connections
    session_connections, \* session id -> the set of its connection ids
    sends,               \* per place: a running send_to_session and its locals
    endpoints            \* per connection: its websocket endpoint's position

fileVars == <<new_tools_json>>
procVars == <<pc, entry>>
cliVars == <<intelligent_tools, conversation, combined_tools, tool_calls,
             turn_dispatched, turn_general>>
subVars == <<variant, sub_tool_def, turn, sub_state, sub_calls, sub_idx,
             tool_results, sub_result, sub_raised, schema_invocations, tool_rounds>>
minerVars == <<existing_tools, thread_data, segments, filtered_segments, seg_idx,
               workflow, evaluation, tool_creation_failed>>
passVars == <<last_thread>>
coreVars == <<fileVars, procVars, cliVars, subVars, minerVars, passVars>>
batchVars == <<b_variant, b_calls, b_state, b_results, b_invoked>>
sessionVars == <<s_conversation, s_pc, s_clock, s_files, most_recent_thread>>
backendVars == <<active_conversations, conversation_lists, requests, saved_threads>>
miningVars == <<shared_tools_file, passes>>
calendarVars == <<calendar_json, callers, stored_before>>
websocketVars == <<active_connections, session_connections, sends, endpoints>>
auxVars == <<batchVars, sessionVars, backendVars, miningVars, calendarVars,
             websocketVars>>
exceptBatch == <<coreVars, sessionVars, backendVars, miningVars, calendarVars,
                  websocketVars>>
exceptSession == <<coreVars, batchVars, backendVars, miningVars, calendarVars,
                  websocketVars>>
exceptBackend == <<coreVars, batchVars, sessionVars, miningVars, calendarVars,
                  websocketVars>>
exceptMining == <<coreVars, batchVars, sessionVars, backendVars, calendarVars,
                  websocketVars>>
exceptCalendar == <<coreVars, batchVars, sessionVars, backendVars, miningVars,
                  websocketVars>>
exceptWebsocket == <<coreVars, batchVars, sessionVars, backendVars, miningVars,
                     calendarVars>>
vars == <<coreVars, auxVars>>

\* the sub-loop's variables when no dispatch is in progress
SubIdle ==
    /\ variant' = "none"
    /\ sub_tool_def' = EmptyDict
    /\ turn' = 0
    /\ sub_state' = "IDLE"
    /\ sub_calls' = <<>>
    /\ sub_idx' = 0
    /\ tool_results' = <<>>
    /\ sub_result' = NoneValue
    /\ sub_raised' = {}
    /\ schema_invocations' = 0
    /\ tool_rounds' = 0

\* the miner's variables when no GEPA instance exists
MinerIdle ==
    /\ existing_tools' = EmptyStore
    /\ thread_data' = NoThread
    /\ segments' = NoSegments
    /\ filtered_segments' = <<>>
    /\ seg_idx' = 0
    /\ workflow' = EmptyDict
    /\ evaluation' = EmptyDict
    /\ tool_creation_failed' = FALSE

\* the CLI's variables when no CLI process runs
CliIdle ==
    /\ intelligent_tools' = EmptyStore
    /\ conversation' = FALSE
    /\ combined_tools' = <<>>
    /\ tool_calls' = <<>>
    /\ turn_dispatched' = <<>>
    /\ turn_general' = <<>>

\* no call of execute_tools is examined alone
BatchIdle ==
    /\ b_variant = "none"
    /\ b_calls = <<>>
    /\ b_state = "idle"
    /\ b_results = <<>>
    /\ b_invoked = <<>>

\* no CLI session is examined alone
SessionIdle ==
    /\ s_conversation = <<>>
    /\ s_pc = "idle"
    /\ s_clock = 0
    /\ s_files = <<>>
    /\ most_recent_thread = NoneValue

\* no backend runs
BackendIdle ==
    /\ active_conversations = <<>>
    /\ conversation_lists = <<>>
    /\ requests = <<>>
    /\ saved_threads = <<>>

\* no concurrent mining passes are examined
MiningIdle ==
    /\ shared_tools_file = {}
    /\ passes = <<>>

\* no calendar calls are examined
CalendarIdle ==
    /\ calendar_json = <<>>
    /\ callers = <<>>
    /\ stored_before = <<>>

\* no WebSocketManager is examined
WebsocketIdle ==
    /\ active_connections = {}
    /\ session_connections = <<>>
    /\ sends = <<>>
    /\ endpoints = <<>>

AuxIdle ==
    BatchIdle /\ SessionIdle /\ BackendIdle /\ MiningIdle /\ CalendarIdle
    /\ WebsocketIdle

\* the state before any program has run
CoreInit ==
    /\ new_tools_json = [exists |-> FALSE, content |-> EmptyStore]
    /\ pc = "off"
    /\ entry = "none"
    /\ intelligent_tools = EmptyStore
    /\ conversation = FALSE
    /\ combined_tools = <<>>
    /\ tool_calls = <<>>
    /\ turn_dispatched = <<>>
    /\ turn_general = <<>>
    /\ variant = "none"
    /\ sub_tool_def = EmptyDict
    /\ turn = 0
    /\ sub_state = "IDLE"
    /\ sub_calls = <<>>
    /\ sub_idx = 0
    /\ tool_results = <<>>
    /\ sub_result = NoneValue
    /\ sub_raised = {}
    /\ schema_invocations = 0
    /\ tool_rounds = 0
    /\ existing_tools = EmptyStore
    /\ thread_data = NoThread
    /\ segments = NoSegments
    /\ filtered_segments = <<>>
    /\ seg_idx = 0
    /\ workflow = EmptyDict
    /\ evaluation = EmptyDict
    /\ tool_creation_failed = FALSE
    /\ last_thread = NoThread

Init == CoreInit /\ AuxIdle

(***************************************************************************)
(* Process start and exit.                                                 *)
(***************************************************************************)
\* GEPA.load_tools
load_tools ==
    IF new_tools_json.exists THEN new_tools_json.content ELSE EmptyStore

\* IntelligentCLI.load_intelligent_tools: the file's mapping, {} when it is missing
load_intelligent_tools ==
    IF new_tools_json.exists THEN new_tools_json.content ELSE EmptyStore

\* GEPA.save_tools: json.dump(self.existing_tools, f)
save_tools == new_tools_json' = [exists |-> TRUE, content |-> existing_tools]

\* the running program ends (normally or by an uncaught exception)
ProcessExit ==
    /\ pc' = "off"
    /\ entry' = "none"
    /\ CliIdle
    /\ SubIdle
    /\ MinerIdle

(***************************************************************************)
(* GEPA.process_thread, one action per model call.                         *)
(***************************************************************************)
\* s.get("is_complex_workflow", False)
IsComplexWorkflow(s) == Get(s, "is_complex_workflow", FALSE)

\* filtered_segments = [s for s in segments if s.get("is_complex_workflow", False)]
FilterSegments(segs) == SelectSeq(segs, IsComplexWorkflow)

\* the loop left by a break: the remaining segments are not visited
BreakLoop ==
    /\ seg_idx' = seg_idx + 1
    /\ pc' = "m_save"
    /\ workflow' = EmptyDict
    /\ evaluation' = EmptyDict

\* the "for segment in filtered_segments" loop moves to the next segment
NextSegment ==
    /\ seg_idx' = seg_idx + 1
    /\ pc' = IF seg_idx + 1 > Len(filtered_segments) THEN "m_save" ELSE "m_analyze"
    /\ workflow' = EmptyDict
    /\ evaluation' = EmptyDict

\* the same exit behind a "finally: self.save_tools()"
MinerAbortSaving ==
    /\ ProcessExit
    /\ last_thread' = NoThread
    /\ save_tools
    /\ UNCHANGED auxVars

\* an exception leaves process_thread: run_gepa_on_recent_thread prints it and
\* run() breaks; gepa.py's main() dies with it.  save_tools is not reached.
MinerAbort ==
    /\ ProcessExit
    /\ last_thread' = NoThread
    /\ UNCHANGED <<fileVars, auxVars>>

\* gepa.py main(): gepa = GEPA(); gepa.process_thread(<example thread>)
StartGepaMain ==
    /\ pc = "off"
    /\ pc' = "m_segment"
    /\ entry' = "gepa_main"
    /\ existing_tools' = load_tools
    /\ thread_data' = ExampleThread
    /\ UNCHANGED <<fileVars, passVars, auxVars, cliVars, subVars, segments, filtered_segments, tool_creation_failed, seg_idx,
                   workflow, evaluation>>

\* segments = self.segment_conversation(thread_data): the model's "segments" as it
\* came ([] when there is no tool call or the arguments do not parse)
SegmentConversation ==
    /\ pc = "m_segment"
    /\ \E out \in StructuredOutcomes(BoundedSeq(SegmentCandidates, MaxSegments)) :
          IF out.kind = "raise"
          THEN MinerAbort
          ELSE /\ segments' = IF out.kind = "args" THEN PyList(out.value)
                               ELSE IF out.kind = "null_field" THEN PyNone
                               ELSE PyList(<<>>)
               /\ pc' = "m_filter"
               /\ UNCHANGED <<fileVars, passVars, auxVars, entry, cliVars, subVars, existing_tools,
                              thread_data, filtered_segments, seg_idx, workflow,
                              evaluation, tool_creation_failed>>

\* filtered_segments = [s for s in segments if ...], then the loop is entered
FilterStep ==
    /\ pc = "m_filter"
    /\ IF segments = PyNone
       THEN MinerAbort      \* iterating None raises TypeError
       ELSE LET filtered == FilterSegments(segments.items) IN
            /\ filtered_segments' = filtered
            /\ segments' = NoSegments
            /\ seg_idx' = 1
            /\ pc' = IF filtered = <<>> THEN "m_save" ELSE "m_analyze"
            /\ UNCHANGED <<fileVars, passVars, auxVars, entry, cliVars, subVars, existing_tools,
                           thread_data, workflow, evaluation, tool_creation_failed>>

\* a gate that lets every analysis through
PotentialGateOpen(w) == TRUE

\* workflow.get("optimization_potential") in ["HIGH", "MEDIUM"]
PotentialGate(w) == Get(w, "optimization_potential", NoneValue) \in {"HIGH", "MEDIUM"}

\* workflow = self.analyze_segment_workflow(segment, thread_data), then the gate
AnalyzeSegmentWorkflow ==
    /\ pc = "m_analyze"
    /\ LET segment == filtered_segments[seg_idx] IN
       IF "user_turns_in_segment" \notin DOMAIN segment
       THEN MinerAbort      \* segment['user_turns_in_segment'] raises KeyError
       ELSE \E out \in StructuredOutcomes(WorkflowAnalyses) :
              IF out.kind \in {"raise", "null_field"}
              THEN MinerAbort   \* the call raises, or None.get(...) does at line 530
              ELSE LET w == IF out.kind = "args" THEN out.value ELSE EmptyDict IN
                   /\ IF PotentialGate(w)
                      THEN /\ workflow' = w
                           /\ pc' = "m_coverage"
                           /\ UNCHANGED <<seg_idx, evaluation>>
                      ELSE NextSegment
                   /\ UNCHANGED <<fileVars, passVars, auxVars, entry, cliVars, subVars, existing_tools,
                                  thread_data, segments, filtered_segments>>
                   /\ tool_creation_failed' = FALSE

\* evaluation.get("new_tool_needed", False)
NewToolNeeded(e) == Get(e, "new_tool_needed", FALSE)

\* the store is empty: check_existing_tool_coverage answers without a model call
CoverageOfEmptyStore == [new_tool_needed |-> TRUE]

\* evaluation = self.check_existing_tool_coverage(workflow, objective)
CheckExistingToolCoverage ==
    /\ pc = "m_coverage"
    /\ \E out \in StructuredOutcomes(ToolEvaluations) :
          IF existing_tools # EmptyStore /\ out.kind \in {"raise", "null_field"}
          THEN MinerAbort   \* the call raises, or None.get(...) does at line 534
          ELSE LET e == IF existing_tools = EmptyStore THEN CoverageOfEmptyStore
                        ELSE IF out.kind = "args" THEN out.value
                        ELSE [new_tool_needed |-> FALSE] IN
               /\ IF NewToolNeeded(e)
                  THEN /\ evaluation' = e
                       /\ pc' = "m_create"
                       /\ UNCHANGED <<seg_idx, workflow>>
                  ELSE NextSegment
               /\ UNCHANGED <<fileVars, passVars, auxVars, entry, cliVars, subVars, existing_tools,
                              thread_data, segments, filtered_segments, tool_creation_failed>>

\* tool_def["source_workflow_complexity"] = workflow_analysis.get(..., 0)
\* (created_at, a wall-clock timestamp, is left out)
StampToolDef(description, w) ==
    ("source_workflow_complexity" :> Get(w, "workflow_complexity_score", 0))
        @@ description

\* if tool_def and tool_def.get("tool_name"):
AcceptToolDef(tool_def) == Get(tool_def, "tool_name", <<>>) # <<>>

\* tool_def = self.create_optimized_tool(...); upsert when accepted
CreateOptimizedTool ==
    /\ pc = "m_create"
    /\ \E out \in StructuredOutcomes(ToolDescriptions) :
          IF out.kind = "raise"
          THEN MinerAbort
          ELSE /\ IF out.kind = "args" /\ AcceptToolDef(StampToolDef(out.value, workflow))
                  THEN LET tool_def == StampToolDef(out.value, workflow) IN
                       /\ existing_tools' =
                              Upsert(existing_tools, tool_def.tool_name, tool_def)
                       /\ tool_creation_failed' = FALSE
                  ELSE \* print("Tool creation failed"): the segment is skipped
                       /\ tool_creation_failed' = TRUE
                       /\ UNCHANGED existing_tools
               /\ NextSegment
               /\ UNCHANGED <<fileVars, passVars, auxVars, entry, cliVars, subVars, thread_data,
                              segments, filtered_segments>>

\* self.save_tools() at the end of process_thread
SaveTools ==
    /\ pc = "m_save"
    /\ save_tools
    /\ pc' = "m_done"
    /\ last_thread' = thread_data
    /\ tool_creation_failed' = FALSE
    /\ UNCHANGED <<auxVars, entry, cliVars, subVars, existing_tools, thread_data, segments,
                   filtered_segments, seg_idx, workflow, evaluation>>

\* run_gepa_on_recent_thread: self.reload_intelligent_tools() after the pass
ReloadAfterMining ==
    /\ pc = "m_done"
    /\ entry = "cli"
    /\ intelligent_tools' = load_intelligent_tools
    /\ pc' = "exiting"
    /\ UNCHANGED <<fileVars, passVars, auxVars, entry, conversation, combined_tools, tool_calls, turn_dispatched,
                   turn_general, subVars, minerVars>>

\* run(): break after CACHE THIS
ExitAfterMining ==
    /\ pc = "exiting"
    /\ ProcessExit
    /\ UNCHANGED <<fileVars, passVars, auxVars>>

(***************************************************************************)
(* The requested tool calls of a model response.  A call's id is its       *)
(* position in the response.                                               *)
(***************************************************************************)
Unparsable == [parses |-> FALSE]
Parsed(v) == [parses |-> TRUE, value |-> v]

BaseCallKinds ==
    {[function |-> f, arguments |-> Parsed(EmptyDict)] :
        f \in {CheckTimeAvailability, CreateCalendarEvent, UnknownTool}}
    \cup {[function |-> CheckTimeAvailability, arguments |-> Unparsable]}

TriggerCallKinds ==
    {[function |-> TriggerFunctionName(n), arguments |-> Parsed(a)] :
        n \in {NameA, NameB, NameTA},
        a \in {[should_trigger |-> FALSE],
               [should_trigger |-> TRUE, confidence |-> "0.9"]}}
    \cup {[function |-> TriggerFunctionName(NameB), arguments |-> Unparsable],
          [function |-> TriggerFunctionName(NameA),
           arguments |-> Parsed([should_trigger |-> TRUE, confidence |-> "high"])]}

\* what the main conversation's model may request (combined schema, or stale names)
MainResponses == BoundedSeq(BaseCallKinds \cup TriggerCallKinds, MaxCalls)

\* what the model may request inside a learned tool's sub-loop
SubResponses == BoundedSeq(BaseCallKinds, MaxCalls)

\* message.content of a model response
ModelContents == {NoneValue, "", "answer"}

(***************************************************************************)
(* IntelligentCLI.run: one user turn.                                      *)
(***************************************************************************)
\* the functions named by the bare tool names
UnprefixedToolFunctions(store) == [i \in DOMAIN store |-> store[i].key]

\* create_intelligent_tool_functions: one function per item of the store, in the
\* store's order; of each schema entry the model keeps the function name
create_intelligent_tool_functions(store) ==
    [i \in DOMAIN store |-> TriggerFunctionName(store[i].key)]

\* combined_tools = tools.copy(); combined_tools.extend(intelligent_functions)
get_combined_tools(store) == tools \o create_intelligent_tool_functions(store)

\* conversation.append(message): the list is non-empty afterwards
AppendMessage == conversation' = TRUE

\* python cli: cli = IntelligentCLI(); cli.run()
StartCLI ==
    /\ pc = "off"
    /\ pc' = "prompt"
    /\ entry' = "cli"
    /\ intelligent_tools' = load_intelligent_tools
    /\ last_thread' = NoThread    \* the session will save a thread file of its own
    /\ UNCHANGED <<fileVars, auxVars, conversation, combined_tools, tool_calls,
                   turn_dispatched, turn_general, subVars, minerVars>>

\* a regular user message: conversation.append({"role": "user", ...})
UserMessage ==
    /\ pc = "prompt"
    /\ AppendMessage
    /\ combined_tools' = get_combined_tools(intelligent_tools)
    /\ turn_dispatched' = <<>>
    /\ turn_general' = <<>>
    /\ pc' = "main_call"
    /\ UNCHANGED <<fileVars, passVars, auxVars, entry, intelligent_tools, tool_calls, subVars, minerVars>>

\* the model call with the combined tools raises
MainModelRaises ==
    /\ pc = "main_call"
    /\ AppendMessage       \* run()'s except appends the error text
    /\ pc' = "prompt"
    /\ UNCHANGED <<fileVars, passVars, auxVars, entry, intelligent_tools, combined_tools, tool_calls, turn_dispatched,
                   turn_general, subVars, minerVars>>

\* the model call returns assistant_message
MainModelResponds ==
    /\ pc = "main_call"
    /\ \E calls \in MainResponses :
          /\ AppendMessage
          /\ tool_calls' = calls
          /\ pc' = IF calls # <<>> THEN "triggers" ELSE "prompt"
    /\ UNCHANGED <<fileVars, passVars, auxVars, entry, intelligent_tools, combined_tools, turn_dispatched,
                   turn_general, subVars, minerVars>>

(***************************************************************************)
(* IntelligentCLI.handle_intelligent_tool_triggers.                        *)
(***************************************************************************)
\* f"{confidence:.2f}" formats numbers only
IsNumber(c) == c \in {"0.0", "0.9"}

\* the test that guards the dispatch: if tool_name in self.intelligent_tools
TriggerHit(tool_name, store) == tool_name \in Keys(store)

\* The scan of tool_calls from position i: the first event that ends it.
\*   raise    - json.loads or the confidence format raises at call i
\*   dispatch - call i is a trigger with should_trigger whose recovered name is stored
\*   none     - the loop ends: return False, None
RECURSIVE ScanTriggers(_, _, _)
ScanTriggers(calls, i, store) ==
    IF i > Len(calls)
    THEN [kind |-> "none"]
    ELSE LET c == calls[i] IN
         IF ~StartsWithTrigger(c.function)
         THEN ScanTriggers(calls, i + 1, store)
         ELSE IF ~c.arguments.parses
         THEN [kind |-> "raise", at |-> i]
         ELSE IF ~Get(c.arguments.value, "should_trigger", FALSE)
         THEN ScanTriggers(calls, i + 1, store)
         ELSE IF ~IsNumber(Get(c.arguments.value, "confidence", "0.0"))
         THEN [kind |-> "raise", at |-> i]
         ELSE IF TriggerHit(RecoverToolName(c.function), store)
         THEN [kind |-> "dispatch", at |-> i,
               tool_name |-> RecoverToolName(c.function)]
         ELSE ScanTriggers(calls, i + 1, store)

\* execute_intelligent_tool up to the try: the sub-loop is DISPATCHED
Dispatch(v, tool_def) ==
    /\ variant' = v
    /\ sub_tool_def' = tool_def
    /\ turn' = 0
    /\ sub_state' = "DISPATCHED"
    /\ sub_calls' = <<>>
    /\ sub_idx' = 0
    /\ tool_results' = <<>>
    /\ sub_result' = NoneValue
    /\ sub_raised' = {}
    /\ schema_invocations' = 0
    /\ tool_rounds' = 0

\* run(): handle_intelligent_tool_triggers(assistant_message.tool_calls, ...)
HandleIntelligentToolTriggers ==
    /\ pc = "triggers"
    /\ LET r == ScanTriggers(tool_calls, 1, intelligent_tools) IN
       CASE r.kind = "raise" ->
              \* propagates to run()'s except
              /\ AppendMessage
              /\ tool_calls' = <<>>
              /\ pc' = "prompt"
              /\ UNCHANGED <<turn_dispatched, subVars>>
         [] r.kind = "dispatch" ->
              /\ Dispatch("cli", Lookup(intelligent_tools, r.tool_name))
              /\ turn_dispatched' = Append(turn_dispatched, r.tool_name)
              /\ tool_calls' = <<>>
              /\ pc' = "sub"
              /\ UNCHANGED conversation
         [] r.kind = "none" ->
              /\ pc' = "general"
              /\ UNCHANGED <<conversation, tool_calls, turn_dispatched, subVars>>
    /\ UNCHANGED <<fileVars, passVars, auxVars, entry, intelligent_tools, combined_tools, turn_general, minerVars>>

(***************************************************************************)
(* execute_intelligent_tool: the bounded sub-loop                          *)
(* (IntelligentCLI's, variant "cli"; GEPA's, variant "gepa").              *)
(***************************************************************************)
DefaultMaxInternalTurns == 3

ExhaustedMessage == "Max turns reached without completion"
FailedMessage(v) ==
    IF v = "cli" THEN "Intelligent tool execution failed: exception"
    ELSE "Tool execution failed: exception"

TerminalStates == {"RESPONDED", "EXHAUSTED", "FAILED"}

\* cli: tool_def.get('max_internal_turns', 3); gepa: tool_def['max_internal_turns']
MaxInternalTurns(v, tool_def) ==
    IF v = "cli" THEN Get(tool_def, "max_internal_turns", DefaultMaxInternalTurns)
    ELSE tool_def.max_internal_turns

\* an off-by-one loop bound: range(N + 1)
LoopGuardInclusive(t, n) == t <= n

\* for turn in range(N)
LoopGuard(t, n) == t < n

\* the cli without its inner try
ToolExceptionHandlerOuterOnly(v) == "outer"

\* which try statement catches an exception raised by TOOL_MAP[func_name](...):
\* the cli wraps the call in its own try; gepa has only the outer one
ToolExceptionHandler(v) == IF v = "cli" THEN "inner" ELSE "outer"

\* the outer "except Exception as e: return f'... failed: {str(e)}'"
Fail(source) ==
    /\ sub_state' = "FAILED"
    /\ sub_result' = FailedMessage(variant)
    /\ sub_raised' = sub_raised \cup {source}

\* the head of the for loop
SubLoopHead ==
    /\ pc = "sub"
    /\ sub_state = "DISPATCHED"
    /\ IF LoopGuard(turn, MaxInternalTurns(variant, sub_tool_def))
       THEN /\ sub_state' = "MODEL_CALL"
            /\ UNCHANGED sub_result
       ELSE /\ sub_state' = "EXHAUSTED"
            /\ sub_result' = ExhaustedMessage
    /\ UNCHANGED <<fileVars, passVars, auxVars, procVars, cliVars, minerVars, variant, sub_tool_def,
                   turn, sub_calls, sub_idx, tool_results, sub_raised,
                   schema_invocations, tool_rounds>>

\* client.chat.completions.create(messages=conversation, tools=tools, ...) raises
SubModelRaises ==
    /\ pc = "sub"
    /\ sub_state = "MODEL_CALL"
    /\ schema_invocations' = schema_invocations + 1
    /\ Fail("model")
    /\ UNCHANGED <<fileVars, passVars, auxVars, procVars, cliVars, minerVars, variant, sub_tool_def,
                   turn, sub_calls, sub_idx, tool_results, tool_rounds>>

\* ... returns assistant_message
SubModelResponds ==
    /\ pc = "sub"
    /\ sub_state = "MODEL_CALL"
    /\ schema_invocations' = schema_invocations + 1
    /\ \E calls \in SubResponses, content \in ModelContents :
          IF calls # <<>>
          THEN /\ sub_calls' = calls
               /\ sub_idx' = 1
               /\ sub_state' = "TOOL_CALL_ROUND"
               /\ tool_rounds' = tool_rounds + 1
               /\ UNCHANGED sub_result
          ELSE \* return assistant_message.content
               /\ sub_state' = "RESPONDED"
               /\ sub_result' = content
               /\ UNCHANGED <<sub_calls, sub_idx, tool_rounds>>
    /\ UNCHANGED <<fileVars, passVars, auxVars, procVars, cliVars, minerVars, variant, sub_tool_def,
                   turn, tool_results, sub_raised>>

\* a tool message appended to tool_results
ToolMessage(i, c, content) ==
    [role |-> "tool", tool_call_id |-> i, name |-> c.function, content |-> content]

\* one iteration of "for tool_call in assistant_message.tool_calls"
SubToolCall ==
    /\ pc = "sub"
    /\ sub_state = "TOOL_CALL_ROUND"
    /\ sub_idx <= Len(sub_calls)
    /\ LET c == sub_calls[sub_idx] IN
       \E outcome \in {"returns", "raises"} :
          IF ~c.arguments.parses
          THEN \* json.loads raises, outside the inner try
               /\ Fail("arguments")
               /\ UNCHANGED <<tool_results, sub_idx>>
          ELSE IF c.function \notin TOOL_MAP
          THEN /\ tool_results' = Append(tool_results,
                      ToolMessage(sub_idx, c, "Error: Tool not found"))
               /\ sub_idx' = sub_idx + 1
               /\ UNCHANGED <<sub_state, sub_result, sub_raised>>
          ELSE IF outcome = "returns"
          THEN /\ tool_results' = Append(tool_results, ToolMessage(sub_idx, c, "result"))
               /\ sub_idx' = sub_idx + 1
               /\ UNCHANGED <<sub_state, sub_result, sub_raised>>
          ELSE IF ToolExceptionHandler(variant) = "inner"
          THEN /\ tool_results' = Append(tool_results,
                      ToolMessage(sub_idx, c, "Error executing tool: exception"))
               /\ sub_idx' = sub_idx + 1
               /\ sub_raised' = sub_raised \cup {"tool"}
               /\ UNCHANGED <<sub_state, sub_result>>
          ELSE /\ Fail("tool")
               /\ UNCHANGED <<tool_results, sub_idx>>
    /\ UNCHANGED <<fileVars, passVars, auxVars, procVars, cliVars, minerVars, variant, sub_tool_def,
                   turn, sub_calls, schema_invocations, tool_rounds>>

\* a loop body that goes on to the next iteration after the round in place of the
\* final call and the return
SubFinalCallContinues ==
    /\ pc = "sub"
    /\ sub_state = "TOOL_CALL_ROUND"
    /\ sub_idx > Len(sub_calls)
    /\ turn' = turn + 1
    /\ sub_state' = "DISPATCHED"
    /\ UNCHANGED <<fileVars, passVars, auxVars, procVars, cliVars, minerVars, variant, sub_tool_def,
                   sub_calls, sub_idx, tool_results, schema_invocations, tool_rounds,
                   sub_result, sub_raised>>

\* final_response = client.chat.completions.create(messages=...)  (no tools=)
SubFinalCall ==
    /\ pc = "sub"
    /\ sub_state = "TOOL_CALL_ROUND"
    /\ sub_idx > Len(sub_calls)
    /\ \E out \in {"raise"} \cup ModelContents :
          IF out = "raise"
          THEN Fail("model")
          ELSE /\ sub_state' = "RESPONDED"
               /\ sub_result' = out
               /\ UNCHANGED sub_raised
    /\ UNCHANGED <<fileVars, passVars, auxVars, procVars, cliVars, minerVars, variant, sub_tool_def,
                   turn, sub_calls, sub_idx, tool_results, schema_invocations,
                   tool_rounds>>

\* handle_intelligent_tool_triggers returns (True, response_content); run() appends
\* the "[Intelligent Tool Response]" message and continues with the next input
SubReturnToRun ==
    /\ pc = "sub"
    /\ variant = "cli"
    /\ sub_state \in TerminalStates
    /\ AppendMessage
    /\ pc' = "prompt"
    /\ SubIdle
    /\ UNCHANGED <<fileVars, passVars, auxVars, entry, intelligent_tools, combined_tools, tool_calls, turn_dispatched,
                   turn_general, minerVars>>

\* gepa.py main() prints the result and ends
SubReturnToGepaMain ==
    /\ pc = "sub"
    /\ variant = "gepa"
    /\ sub_state \in TerminalStates
    /\ ProcessExit
    /\ UNCHANGED <<fileVars, passVars, auxVars>>

\* gepa.py main() after process_thread: execute the first learned tool
GepaMainExecute ==
    /\ pc = "m_done"
    /\ entry = "gepa_main"
    /\ IF existing_tools # EmptyStore
          /\ "max_internal_turns" \in DOMAIN existing_tools[1].def
       THEN /\ Dispatch("gepa", existing_tools[1].def)
            /\ pc' = "sub"
            /\ UNCHANGED <<fileVars, passVars, auxVars, entry, cliVars, minerVars>>
       ELSE \* no tool to test, or tool_def['max_internal_turns'] raises KeyError
            /\ ProcessExit
            /\ UNCHANGED <<fileVars, passVars, auxVars>>

(***************************************************************************)
(* IntelligentCLI.execute_tools and the rest of the general path.          *)
(***************************************************************************)
MinOf(S) == CHOOSE i \in S : \A j \in S : i <= j

\* the position at which json.loads(tool_call.function.arguments) raises, or Len + 1
FirstUnparsable(calls) ==
    LET bad == {i \in DOMAIN calls : ~calls[i].arguments.parses}
    IN IF bad = {} THEN Len(calls) + 1 ELSE MinOf(bad)

\* tool_results of the calls at positions i .. stop - 1: trigger calls are skipped,
\* every other call yields exactly one tool message
RECURSIVE ExecuteToolsResults(_, _, _, _)
ExecuteToolsResults(calls, outcomes, i, stop) ==
    IF i >= stop
    THEN <<>>
    ELSE LET c == calls[i]
             rest == ExecuteToolsResults(calls, outcomes, i + 1, stop)
         IN IF StartsWithTrigger(c.function)
            THEN rest
            ELSE IF c.function \notin TOOL_MAP
            THEN <<ToolMessage(i, c, "Error: Tool not found")>> \o rest
            ELSE IF outcomes[i] = "returns"
            THEN <<ToolMessage(i, c, "result")>> \o rest
            ELSE <<ToolMessage(i, c, "Error executing tool: exception")>> \o rest

\* the functions of TOOL_MAP that execute_tools invoked, in order
RECURSIVE InvokedByExecuteTools(_, _, _)
InvokedByExecuteTools(calls, i, stop) ==
    IF i >= stop
    THEN <<>>
    ELSE LET rest == InvokedByExecuteTools(calls, i + 1, stop)
         IN IF ~StartsWithTrigger(calls[i].function) /\ calls[i].function \in TOOL_MAP
            THEN <<calls[i].function>> \o rest
            ELSE rest

\* run(): tool_results = self.execute_tools(assistant_message.tool_calls)
ExecuteTools ==
    /\ pc = "general"
    /\ \E outcomes \in [DOMAIN tool_calls -> {"returns", "raises"}] :
          LET stop == FirstUnparsable(tool_calls)
              results == ExecuteToolsResults(tool_calls, outcomes, 1, stop)
          IN /\ turn_general' =
                    turn_general \o InvokedByExecuteTools(tool_calls, 1, stop)
             /\ IF stop <= Len(tool_calls)
                THEN \* json.loads raised: run()'s except
                     /\ AppendMessage
                     /\ pc' = "prompt"
                ELSE IF results # <<>>
                THEN /\ UNCHANGED conversation   \* extended, and non-empty before
                     /\ pc' = "final_call"
                ELSE /\ pc' = "prompt"
                     /\ UNCHANGED conversation
    /\ tool_calls' = <<>>
    /\ UNCHANGED <<fileVars, passVars, auxVars, entry, intelligent_tools, combined_tools, turn_dispatched, subVars,
                   minerVars>>

\* the follow-up model call that answers from the tool data
FinalResponse ==
    /\ pc = "final_call"
    /\ AppendMessage       \* the answer, or the error text of run()'s except
    /\ pc' = "prompt"
    /\ UNCHANGED <<fileVars, passVars, auxVars, entry, intelligent_tools, combined_tools, tool_calls, turn_dispatched,
                   turn_general, subVars, minerVars>>

(***************************************************************************)
(* Commands of run().                                                      *)
(***************************************************************************)
\* CLOSE: the thread is saved when there is a conversation; the program ends
Close ==
    /\ pc = "prompt"
    /\ ProcessExit
    /\ UNCHANGED <<fileVars, passVars, auxVars>>

\* CACHE THIS: save_thread, then run_gepa_on_recent_thread: GEPA().process_thread.
\* The saved thread reaches the miner's control flow only through model prompts;
\* it ranges over Threads.  run() never reads the conversation again.
CacheThis ==
    /\ pc = "prompt"
    /\ IF ~conversation
       THEN \* "No recent thread found to analyze", then break
            /\ ProcessExit
            /\ UNCHANGED <<fileVars, passVars, auxVars>>
       ELSE /\ \E t \in Threads : thread_data' = t
            /\ existing_tools' = load_tools
            /\ conversation' = FALSE
            /\ turn_dispatched' = <<>>
            /\ turn_general' = <<>>
            /\ pc' = "m_segment"
            /\ UNCHANGED <<fileVars, passVars, auxVars, entry, intelligent_tools, combined_tools, tool_calls,
                           subVars, segments, filtered_segments, tool_creation_failed, seg_idx, workflow, evaluation>>

(***************************************************************************)
(* execute_tools taken alone: one call on a batch of requested calls, in   *)
(* the CLI's version and in the fallback version of learning_agent.py      *)
(* (used there because the module cli_orion cannot be imported).           *)
(***************************************************************************)
\* the fallback TOOL_MAP of learning_agent.py
MOCK_TOOL_MAP == {SearchRestaurants, <<"search_calendar_events">>, <<"get_weather">>}

\* a well-formed call with a null argument
NullArgumentCall ==
    [function |-> SearchRestaurants,
     arguments |-> Parsed([cuisine |-> "italian", area |-> NoneValue])]

BatchCallKinds == BaseCallKinds \cup TriggerCallKinds \cup {NullArgumentCall}

\* filtered_args = {k: v for k, v in args.items() if v is not None}
FilteredArgs(args) ==
    [k \in {j \in DOMAIN args : args[j] # NoneValue} |-> args[k]]

\* the first position, if any, at which the invocation of a tool raises
FirstRaising(calls, outcomes, map) ==
    LET bad == {i \in DOMAIN calls :
                  /\ ~StartsWithTrigger(calls[i].function)
                  /\ calls[i].function \in map
                  /\ outcomes[i] = "raises"}
    IN IF bad = {} THEN Len(calls) + 1 ELSE MinOf(bad)

\* the CLI's loop without the try statement around the invocation
AbortPositionWithoutTry(v, calls, outcomes) ==
    IF FirstUnparsable(calls) <= FirstRaising(calls, outcomes, TOOL_MAP)
    THEN FirstUnparsable(calls)
    ELSE FirstRaising(calls, outcomes, TOOL_MAP)

\* the position at which an exception leaves execute_tools, Len + 1 when none does.
\* cli: json.loads stands outside the try statement, the invocation inside it;
\* backend: json.loads is guarded (args = {}), the invocation is not
AbortPosition(v, calls, outcomes) ==
    IF v = "cli" THEN FirstUnparsable(calls)
    ELSE FirstRaising(calls, outcomes, MOCK_TOOL_MAP)

\* the fallback execute_tools: one message per call, a mock text for unknown names
RECURSIVE MockToolsResults(_, _)
MockToolsResults(calls, i) ==
    IF i > Len(calls)
    THEN <<>>
    ELSE <<ToolMessage(i, calls[i],
                       IF calls[i].function \in MOCK_TOOL_MAP THEN "result"
                       ELSE "Mock result (real tool not available)")>>
         \o MockToolsResults(calls, i + 1)

\* the invocations TOOL_MAP[func_name](**filtered_args) of the CLI's loop
RECURSIVE InvocationsOf(_, _, _)
InvocationsOf(calls, i, stop) ==
    IF i >= stop
    THEN <<>>
    ELSE LET rest == InvocationsOf(calls, i + 1, stop)
         IN IF ~StartsWithTrigger(calls[i].function) /\ calls[i].function \in TOOL_MAP
            THEN <<[id |-> i, function |-> calls[i].function,
                    args |-> FilteredArgs(calls[i].arguments.value)]>> \o rest
            ELSE rest

\* tool_results = execute_tools(tool_calls)
ExecuteToolsAlone ==
    /\ b_state = "ready"
    /\ \E outcomes \in [DOMAIN b_calls -> {"returns", "raises"}] :
          LET stop == AbortPosition(b_variant, b_calls, outcomes) IN
          /\ b_state' = IF stop <= Len(b_calls) THEN "raised" ELSE "returned"
          /\ b_results' =
                IF stop <= Len(b_calls) THEN <<>>
                ELSE IF b_variant = "cli"
                THEN ExecuteToolsResults(b_calls, outcomes, 1, stop)
                ELSE MockToolsResults(b_calls, 1)
          /\ b_invoked' = IF b_variant = "cli" THEN InvocationsOf(b_calls, 1, stop)
                          ELSE <<>>
    /\ UNCHANGED <<exceptBatch, b_variant, b_calls>>

\* any batch of requested calls, handed to either version
BatchInit ==
    /\ CoreInit
    /\ b_variant \in {"cli", "backend"}
    /\ b_calls \in BoundedSeq(BatchCallKinds, MaxCalls)
    /\ b_state = "ready"
    /\ b_results = <<>>
    /\ b_invoked = <<>>
    /\ SessionIdle
    /\ BackendIdle
    /\ MiningIdle
    /\ CalendarIdle
    /\ WebsocketIdle

BatchNext == ExecuteToolsAlone

BatchSpec == BatchInit /\ [][BatchNext]_vars

(***************************************************************************)
(* Thread files: save_thread, and the session loop that calls it.          *)
(***************************************************************************)
MaxSessionTurns == 2
MaxClock == 1
MaxMessages == 3

\* the texts of the model that begin with the literal "Error"
ErrorTexts == {"Error: Tool not found", "Error executing tool: exception",
               "Error: exception", "Error in my code"}

\* content.startswith("Error")
StartsWithError(content) == content \in ErrorTexts

\* the messages a conversation holds: dicts, and the SDK's message objects, which
\* alone have the attribute tool_calls (an empty list stands for None)
SystemMsg == [role |-> "system", content |-> "prompt"]
UserMsg(text) == [role |-> "user", content |-> text]
AssistantDict(content) == [role |-> "assistant", content |-> content]
AssistantObject(content, calls) ==
    [role |-> "assistant", content |-> content, tool_calls |-> calls]

IsMessageObject(msg) == "tool_calls" \in DOMAIN msg

GoodCall == [function |-> SearchRestaurants, arguments |-> Parsed(EmptyDict)]
MissingCall == [function |-> UnknownTool, arguments |-> Parsed(EmptyDict)]
BadCall == [function |-> SearchRestaurants, arguments |-> Unparsable]

\* calls of a learned tool's trigger function
FiringTrigger ==
    [function |-> TriggerFunctionName(NameA),
     arguments |-> Parsed([should_trigger |-> TRUE, confidence |-> "0.9"])]
SilentTrigger ==
    [function |-> TriggerFunctionName(NameA),
     arguments |-> Parsed([should_trigger |-> FALSE])]

\* content = msg.get("content", "") for a dict, msg.content or "" for an object
ContentOf(msg) ==
    IF IsMessageObject(msg)
    THEN IF msg.content = NoneValue THEN "" ELSE msg.content
    ELSE Get(msg, "content", "")

\* the turn save_thread appends for a message, numbered turn_number
TurnOf(msg, turn_number) ==
    IF msg.role = "user"
    THEN [turn |-> turn_number, type |-> "user_input", content |-> ContentOf(msg)]
    ELSE IF msg.role = "assistant"
    THEN IF IsMessageObject(msg) /\ msg.tool_calls # <<>>
         THEN [turn |-> turn_number, type |-> "assistant_tool_request",
               content |-> ContentOf(msg),
               tool_calls |-> [k \in DOMAIN msg.tool_calls |->
                                 [function |-> msg.tool_calls[k].function,
                                  arguments |-> msg.tool_calls[k].arguments.value,
                                  call_id |-> k]]]
         ELSE [turn |-> turn_number, type |-> "assistant_response",
               content |-> ContentOf(msg)]
    ELSE [turn |-> turn_number, type |-> "tool_result", tool_name |-> msg.name,
          tool_call_id |-> msg.tool_call_id, content |-> msg.content,
          success |-> ~StartsWithError(msg.content)]

\* the roles for which save_thread appends a turn
ProducesTurn(msg) == msg.role \in {"user", "assistant", "tool"}

\* numbering by the position of the message instead
NextTurnNumberPerMessage(msg, turn_number) == turn_number + 1

\* turn_number += 1 stands inside each branch that appends a turn
NextTurnNumber(msg, turn_number) ==
    IF ProducesTurn(msg) THEN turn_number + 1 ELSE turn_number

\* the loop of save_thread from message i on: a message of any other role is
\* passed over
RECURSIVE TurnsFrom(_, _, _)
TurnsFrom(messages, i, turn_number) ==
    IF i > Len(messages)
    THEN <<>>
    ELSE (IF ProducesTurn(messages[i])
          THEN <<TurnOf(messages[i], turn_number)>>
          ELSE <<>>)
         \o TurnsFrom(messages, i + 1,
                      NextTurnNumber(messages[i], turn_number))

\* json.loads(tc.function.arguments) raises on a recorded tool call
ToolCallUnparsable(messages) ==
    \E i \in DOMAIN messages :
        /\ messages[i].role = "assistant"
        /\ IsMessageObject(messages[i])
        /\ \E k \in DOMAIN messages[i].tool_calls :
              ~messages[i].tool_calls[k].arguments.parses

\* t.get("content", "").startswith raises on a turn whose content is None
ContentIsNone(messages) ==
    \E i \in DOMAIN messages :
        /\ ProducesTurn(messages[i])
        /\ ContentOf(messages[i]) = NoneValue

SaveThreadRaises(messages) ==
    ToolCallUnparsable(messages) \/ ContentIsNone(messages)

\* metadata of thread_data
MetadataOf(turns) ==
    [total_turns |-> Len(turns),
     user_turns |-> Cardinality({i \in DOMAIN turns : turns[i].type = "user_input"}),
     tool_calls |-> Cardinality({i \in DOMAIN turns : turns[i].type = "tool_result"}),
     success |-> ~\E i \in DOMAIN turns : StartsWithError(Get(turns[i], "content", ""))]

\* thread_data
ThreadDataOf(messages) ==
    LET turns == TurnsFrom(messages, 1, 1)
    IN [turns |-> turns, metadata |-> MetadataOf(turns)]

\* json.dump: an object is its members in insertion order, each value a JSON token
JsonString(s) == [json |-> "string", text |-> s]
JsonNumber(n) == [json |-> "number", text |-> n]
JsonLiteral(b) == [json |-> "literal", text |-> IF b THEN "true" ELSE "false"]
JsonOther(v) == [json |-> "value", text |-> v]

DumpTurn(t) ==
    <<<<"turn", JsonNumber(t.turn)>>, <<"type", JsonString(t.type)>>>>
    \o (IF t.type = "tool_result"
        THEN <<<<"tool_name", JsonOther(t.tool_name)>>,
               <<"tool_call_id", JsonNumber(t.tool_call_id)>>>>
        ELSE <<>>)
    \o <<<<"content", JsonString(t.content)>>>>
    \o (IF t.type = "assistant_tool_request"
        THEN <<<<"tool_calls", JsonOther(t.tool_calls)>>>>
        ELSE <<>>)
    \o (IF t.type = "tool_result"
        THEN <<<<"success", JsonLiteral(t.success)>>>>
        ELSE <<>>)

DumpMetadata(m) ==
    <<<<"total_turns", JsonNumber(m.total_turns)>>,
      <<"user_turns", JsonNumber(m.user_turns)>>,
      <<"tool_calls", JsonNumber(m.tool_calls)>>,
      <<"success", JsonLiteral(m.success)>>>>

DumpThread(data) ==
    [turns |-> [i \in DOMAIN data.turns |-> DumpTurn(data.turns[i])],
     metadata |-> DumpMetadata(data.metadata)]

\* json.load: a literal becomes a boolean, any other token its value
LoadToken(token) ==
    IF token.json = "literal" THEN token.text = "true" ELSE token.text

LoadObject(members) ==
    [key \in {members[j][1] : j \in DOMAIN members} |->
        LoadToken(members[CHOOSE j \in DOMAIN members : members[j][1] = key][2])]

LoadThread(text) ==
    [turns |-> [i \in DOMAIN text.turns |-> LoadObject(text.turns[i])],
     metadata |-> LoadObject(text.metadata)]

\* open(filepath, 'w') and json.dump: the file of that name is created or replaced
WriteFile(files, name, text) ==
    [n \in DOMAIN files \cup {name} |-> IF n = name THEN text ELSE files[n]]

\* save_thread(conversation) at the present second, then control goes to next_pc;
\* an exception of save_thread leaves run, whose commands stand outside its try
SaveThread(next_pc) ==
    IF SaveThreadRaises(s_conversation)
    THEN /\ s_pc' = "crashed"
         /\ UNCHANGED <<s_files, most_recent_thread>>
    ELSE /\ s_files' = WriteFile(s_files, s_clock,
                                 DumpThread(ThreadDataOf(s_conversation)))
         /\ most_recent_thread' = s_clock
         /\ s_pc' = next_pc

\* what one pass of run's loop appends for a regular input: the user's message, the
\* model's message object, the tool messages, the final answer, or the handler's
\* "Error: ..." message
TurnKinds ==
    {<<UserMsg("hello"), AssistantObject("answer", <<>>)>>,
     <<UserMsg("Error in my code"), AssistantObject("answer", <<>>)>>,
     <<UserMsg("hello"), AssistantObject(NoneValue, <<GoodCall>>),
       ToolMessage(1, GoodCall, "result"), AssistantDict("answer")>>,
     <<UserMsg("hello"), AssistantObject(NoneValue, <<MissingCall>>),
       ToolMessage(1, MissingCall, "Error: Tool not found"), AssistantDict("answer")>>,
     <<UserMsg("hello"), AssistantObject(NoneValue, <<GoodCall>>),
       ToolMessage(1, GoodCall, "result"), AssistantDict(NoneValue)>>,
     <<UserMsg("hello"), AssistantObject(NoneValue, <<BadCall>>),
       AssistantDict("Error: exception")>>,
     <<UserMsg("hello"), AssistantDict("Error: exception")>>,
     \* a learned tool is dispatched: its answer is appended as an assistant message
     <<UserMsg("hello"), AssistantObject(NoneValue, <<FiringTrigger>>),
       AssistantDict("[Intelligent Tool Response] answer")>>,
     \* only a trigger call that does not fire: execute_tools returns no result
     <<UserMsg("hello"), AssistantObject(NoneValue, <<SilentTrigger>>)>>}

UserTurnsOf(messages) ==
    Cardinality({i \in DOMAIN messages : messages[i].role = "user"})

\* a regular input: conversation.append(...) through the end of the loop body
RegularInput ==
    /\ s_pc = "input"
    /\ UserTurnsOf(s_conversation) < MaxSessionTurns
    /\ \E kind \in TurnKinds : s_conversation' = s_conversation \o kind
    /\ UNCHANGED <<exceptSession, s_pc, s_clock, s_files, most_recent_thread>>

\* 'SAVE' with a conversation: save_thread, continue
CommandSave ==
    /\ s_pc = "input"
    /\ s_conversation # <<>>
    /\ SaveThread("input")
    /\ UNCHANGED <<exceptSession, s_conversation, s_clock>>

\* 'CLOSE': save_thread if there is a conversation, break
CommandClose ==
    /\ s_pc = "input"
    /\ IF s_conversation # <<>>
       THEN SaveThread("closed")
       ELSE s_pc' = "closed" /\ UNCHANGED <<s_files, most_recent_thread>>
    /\ UNCHANGED <<exceptSession, s_conversation, s_clock>>

\* 'CACHE THIS': save_thread if there is a conversation, the mining pass, break
CommandCacheThis ==
    /\ s_pc = "input"
    /\ IF s_conversation # <<>>
       THEN SaveThread("closed")
       ELSE s_pc' = "closed" /\ UNCHANGED <<s_files, most_recent_thread>>
    /\ UNCHANGED <<exceptSession, s_conversation, s_clock>>

\* a second passes while run waits in input()
Tick ==
    /\ s_pc = "input"
    /\ s_clock < MaxClock
    /\ s_clock' = s_clock + 1
    /\ UNCHANGED <<exceptSession, s_conversation, s_pc, s_files,
                   most_recent_thread>>

\* conversation = [] at the start of run
SessionInit ==
    /\ CoreInit
    /\ BatchIdle
    /\ BackendIdle
    /\ MiningIdle
    /\ CalendarIdle
    /\ WebsocketIdle
    /\ s_conversation = <<>>
    /\ s_pc = "input"
    /\ s_clock = 0
    /\ s_files = <<>>
    /\ most_recent_thread = NoneValue

SessionNext ==
    \/ RegularInput
    \/ CommandSave
    \/ CommandClose
    \/ CommandCacheThis
    \/ Tick

SessionSpec == SessionInit /\ [][SessionNext]_vars

\* the messages a list handed to save_thread may hold
MessageKinds ==
    {SystemMsg, UserMsg("hello"), UserMsg("Error in my code"),
     AssistantObject("answer", <<>>), AssistantObject(NoneValue, <<GoodCall>>),
     AssistantObject(NoneValue, <<BadCall>>),
     AssistantDict("answer"), AssistantDict(NoneValue), AssistantDict("Error: exception"),
     ToolMessage(1, GoodCall, "result"),
     ToolMessage(1, MissingCall, "Error: Tool not found")}

\* filepath = save_thread(conversation), taken alone
SaveThreadAlone ==
    /\ s_pc = "call"
    /\ SaveThread("returned")
    /\ UNCHANGED <<exceptSession, s_conversation, s_clock>>

ThreadInit ==
    /\ CoreInit
    /\ BatchIdle
    /\ BackendIdle
    /\ MiningIdle
    /\ CalendarIdle
    /\ WebsocketIdle
    /\ s_conversation \in BoundedSeq(MessageKinds, MaxMessages)
    /\ s_pc = "call"
    /\ s_clock = 0
    /\ s_files = <<>>
    /\ most_recent_thread = NoneValue

ThreadNext == SaveThreadAlone

ThreadSpec == ThreadInit /\ [][ThreadNext]_vars

(***************************************************************************)
(* The backend: requests of the chat API served by one LearningAgent.      *)
(* A coroutine runs alone between two of its await expressions; each       *)
(* action is one such stretch.                                             *)
(***************************************************************************)
MaxRequests == 2

Requests == 1..MaxRequests
SessionIds == {"s1", "s2"}
NoList == 0

\* a request that has not been sent
NewRequest ==
    [pc |-> "new", session_id |-> "none", continues |-> FALSE,
     conversation |-> NoList, tools_conversation |-> NoList, seen |-> <<>>]

\* the message a request adds in a role
RequestMsg(role, r) == [role |-> role, request |-> r]

\* conversation.append(msg) on a list object
AppendTo(lists, id, msg) == [lists EXCEPT ![id] = Append(@, msg)]

\* self.active_conversations[session_id] = the list object id
Bind(active, session_id, id) ==
    [k \in DOMAIN active \cup {session_id} |-> IF k = session_id THEN id ELSE active[k]]

\* del self.active_conversations[session_id]
Unbind(active, session_id) == [k \in DOMAIN active \ {session_id} |-> active[k]]

\* the model calls of a session that are awaited at this moment
InFlight(session_id) ==
    {r \in DOMAIN requests : /\ requests[r].session_id = session_id
                             /\ requests[r].pc \in {"model_call", "final_call"}}

\* send_message and process_message up to the first await: a known session goes to
\* continue_gepa_conversation, which appends the user's message at once; an unknown
\* one to start_gepa_conversation, which awaits before it creates the list.
\* Requests are numbered in the order of their arrival.
SendMessage(r) ==
    /\ requests[r].pc = "new"
    /\ \A q \in Requests : q < r => requests[q].pc # "new"
    /\ \E session_id \in SessionIds :
          IF session_id \in DOMAIN active_conversations
          THEN /\ requests' = [requests EXCEPT ![r] =
                     [@ EXCEPT !.pc = "process", !.session_id = session_id,
                               !.continues = TRUE]]
               /\ conversation_lists' =
                     AppendTo(conversation_lists, active_conversations[session_id],
                              RequestMsg("user", r))
          ELSE /\ requests' = [requests EXCEPT ![r] =
                     [@ EXCEPT !.pc = "start", !.session_id = session_id]]
               /\ UNCHANGED conversation_lists
    /\ UNCHANGED <<exceptBackend, active_conversations, saved_threads>>

\* start_gepa_conversation: a new list replaces whatever the session holds
StartGepaConversation(r) ==
    /\ requests[r].pc = "start"
    /\ conversation_lists' =
          [id \in DOMAIN conversation_lists \cup {r} |->
              IF id = r THEN <<SystemMsg, RequestMsg("user", r)>>
              ELSE conversation_lists[id]]
    /\ active_conversations' = Bind(active_conversations, requests[r].session_id, r)
    /\ requests' = [requests EXCEPT ![r].pc = "process"]
    /\ UNCHANGED <<exceptBackend, saved_threads>>

\* process_gepa_message: conversation = self.active_conversations[session_id], a
\* KeyError when a completing request has deleted it, caught in process_message
ProcessGepaMessage(r) ==
    /\ requests[r].pc = "process"
    /\ requests' = [requests EXCEPT ![r] =
          IF requests[r].session_id \in DOMAIN active_conversations
          THEN [@ EXCEPT !.pc = "emit",
                         !.conversation = active_conversations[requests[r].session_id]]
          ELSE [@ EXCEPT !.pc = "failed"]]
    /\ UNCHANGED <<exceptBackend, active_conversations, conversation_lists,
                   saved_threads>>

\* await self.openai_client.chat.completions.create(messages=conversation, ...)
CallModel(r) ==
    /\ requests[r].pc = "emit"
    /\ requests' = [requests EXCEPT ![r] =
          [@ EXCEPT !.pc = "model_call",
                    !.seen = conversation_lists[requests[r].conversation]]]
    /\ UNCHANGED <<exceptBackend, active_conversations, conversation_lists,
                   saved_threads>>

\* the except branch of process_gepa_message: one assistant message with the error
\* text goes to the list the function bound at its start
AppendError(r) ==
    /\ conversation_lists' =
          AppendTo(conversation_lists, requests[r].conversation, RequestMsg("error", r))
    /\ requests' = [requests EXCEPT ![r] = [@ EXCEPT !.pc = "finish", !.seen = <<>>]]

\* the model call returns text, returns tool calls or raises; with tool calls
\* handle_gepa_tool_calls looks the session's list up again before its first await,
\* a KeyError when the session is gone
ModelReturns(r) ==
    /\ requests[r].pc = "model_call"
    /\ \E outcome \in {"text", "tool_calls", "raises"} :
          CASE outcome = "raises" -> AppendError(r)
            [] outcome = "text" ->
                 /\ conversation_lists' =
                       AppendTo(conversation_lists, requests[r].conversation,
                                RequestMsg("assistant", r))
                 /\ requests' = [requests EXCEPT ![r] =
                       [@ EXCEPT !.pc = "finish", !.seen = <<>>]]
            [] outcome = "tool_calls" ->
                 IF requests[r].session_id \in DOMAIN active_conversations
                 THEN /\ conversation_lists' =
                            AppendTo(conversation_lists, requests[r].conversation,
                                     RequestMsg("assistant_tool_calls", r))
                      /\ requests' = [requests EXCEPT ![r] =
                            [@ EXCEPT !.pc = "tools", !.seen = <<>>,
                                      !.tools_conversation =
                                          active_conversations[requests[r].session_id]]]
                 ELSE /\ conversation_lists' =
                            [conversation_lists EXCEPT ![requests[r].conversation] =
                                @ \o <<RequestMsg("assistant_tool_calls", r),
                                       RequestMsg("error", r)>>]
                      /\ requests' = [requests EXCEPT ![r] =
                            [@ EXCEPT !.pc = "finish", !.seen = <<>>]]
    /\ UNCHANGED <<exceptBackend, active_conversations, saved_threads>>

\* handle_gepa_tool_calls after its awaits: execute_tools, conversation.extend, then
\* the call for the final response; an exception of execute_tools is caught in
\* process_gepa_message
ExecuteAndCallFinal(r) ==
    /\ requests[r].pc = "tools"
    /\ \E outcome \in {"returns", "raises"} :
          IF outcome = "returns"
          THEN /\ conversation_lists' =
                     AppendTo(conversation_lists, requests[r].tools_conversation,
                              RequestMsg("tool", r))
               /\ requests' = [requests EXCEPT ![r] =
                     [@ EXCEPT !.pc = "final_call",
                               !.seen =
                                   Append(conversation_lists[requests[r].tools_conversation],
                                          RequestMsg("tool", r))]]
          ELSE /\ conversation_lists' =
                     AppendTo(conversation_lists, requests[r].conversation,
                              RequestMsg("error", r))
               /\ requests' = [requests EXCEPT ![r].pc = "finish"]
    /\ UNCHANGED <<exceptBackend, active_conversations, saved_threads>>

\* the final call returns or raises
FinalReturns(r) ==
    /\ requests[r].pc = "final_call"
    /\ \E outcome \in {"text", "raises"} :
          IF outcome = "raises"
          THEN AppendError(r)
          ELSE /\ conversation_lists' =
                     AppendTo(conversation_lists, requests[r].tools_conversation,
                              RequestMsg("assistant", r))
               /\ requests' = [requests EXCEPT ![r] =
                     [@ EXCEPT !.pc = "finish", !.seen = <<>>]]
    /\ UNCHANGED <<exceptBackend, active_conversations, saved_threads>>

\* the rest of continue_gepa_conversation up to its next await: when the user's
\* message holds a completion phrase, save_thread of the session's list, a KeyError
\* when the session is gone already; start_gepa_conversation returns at once
Finish(r) ==
    /\ requests[r].pc = "finish"
    /\ \E completes \in BOOLEAN :
          IF requests[r].continues /\ completes
          THEN IF requests[r].session_id \in DOMAIN active_conversations
               THEN /\ saved_threads' =
                          Append(saved_threads,
                                 active_conversations[requests[r].session_id])
                    /\ requests' = [requests EXCEPT ![r].pc = "clean_up"]
               ELSE /\ requests' = [requests EXCEPT ![r].pc = "failed"]
                    /\ UNCHANGED saved_threads
          ELSE /\ requests' = [requests EXCEPT ![r].pc = "done"]
               /\ UNCHANGED saved_threads
    /\ UNCHANGED <<exceptBackend, active_conversations, conversation_lists>>

\* continue_gepa_conversation after the awaits that follow save_thread:
\* del self.active_conversations[session_id], a KeyError when it is gone
CleanUp(r) ==
    /\ requests[r].pc = "clean_up"
    /\ IF requests[r].session_id \in DOMAIN active_conversations
       THEN /\ active_conversations' =
                  Unbind(active_conversations, requests[r].session_id)
            /\ requests' = [requests EXCEPT ![r].pc = "done"]
       ELSE /\ requests' = [requests EXCEPT ![r].pc = "failed"]
            /\ UNCHANGED active_conversations
    /\ UNCHANGED <<exceptBackend, conversation_lists, saved_threads>>

\* complete_gepa_conversation, called by the complete and clear-session endpoints:
\* it has no await; an unknown session returns None
CompleteGepaConversation ==
    /\ \E session_id \in SessionIds :
          IF session_id \in DOMAIN active_conversations
          THEN /\ saved_threads' =
                     Append(saved_threads, active_conversations[session_id])
               /\ active_conversations' = Unbind(active_conversations, session_id)
          ELSE UNCHANGED <<active_conversations, saved_threads>>
    /\ UNCHANGED <<exceptBackend, conversation_lists, requests>>

\* LearningAgent.__init__: no conversation is active
BackendInit ==
    /\ CoreInit
    /\ BatchIdle
    /\ SessionIdle
    /\ MiningIdle
    /\ CalendarIdle
    /\ WebsocketIdle
    /\ active_conversations = <<>>
    /\ conversation_lists = <<>>
    /\ requests = [r \in Requests |-> NewRequest]
    /\ saved_threads = <<>>

BackendNext ==
    \/ \E r \in Requests :
        \/ SendMessage(r)
        \/ StartGepaConversation(r)
        \/ ProcessGepaMessage(r)
        \/ CallModel(r)
        \/ ModelReturns(r)
        \/ ExecuteAndCallFinal(r)
        \/ FinalReturns(r)
        \/ Finish(r)
        \/ CleanUp(r)
    \/ CompleteGepaConversation

BackendSpec == BackendInit /\ [][BackendNext]_vars

(***************************************************************************)
(* Two mining passes on one store file.  Each GEPA instance reads the file *)
(* when it is constructed and writes its whole map when its pass ends.     *)
(***************************************************************************)
Passes == {1, 2}
CreatedNames == {"tool_a", "tool_b", "tool_c"}

NewPass == [pc |-> "new", existing_tools |-> {}, created |-> {}]

\* GEPA(): self.existing_tools = self.load_tools()
ConstructGepa(p) ==
    /\ passes[p].pc = "new"
    /\ passes' = [passes EXCEPT ![p] =
          [@ EXCEPT !.pc = "mining", !.existing_tools = shared_tools_file]]
    /\ UNCHANGED <<exceptMining, shared_tools_file>>

\* self.existing_tools[tool_def["tool_name"]] = tool_def, once per segment at most
CreateToolInPass(p) ==
    /\ passes[p].pc = "mining"
    /\ Cardinality(passes[p].created) < MaxSegments
    /\ \E tool_name \in CreatedNames \ passes[p].created :
          passes' = [passes EXCEPT ![p] =
              [@ EXCEPT !.existing_tools = @ \cup {tool_name},
                        !.created = @ \cup {tool_name}]]
    /\ UNCHANGED <<exceptMining, shared_tools_file>>

\* self.save_tools() at the end of process_thread: the file becomes this map
SaveToolsOfPass(p) ==
    /\ passes[p].pc = "mining"
    /\ shared_tools_file' = passes[p].existing_tools
    /\ passes' = [passes EXCEPT ![p].pc = "done"]
    /\ UNCHANGED exceptMining

MiningInit ==
    /\ CoreInit
    /\ BatchIdle
    /\ SessionIdle
    /\ BackendIdle
    /\ CalendarIdle
    /\ WebsocketIdle
    /\ shared_tools_file \in {{}, {"tool_z"}}
    /\ passes = [p \in Passes |-> NewPass]

MiningNext ==
    \E p \in Passes :
        \/ ConstructGepa(p)
        \/ CreateToolInPass(p)
        \/ SaveToolsOfPass(p)

MiningSpec == MiningInit /\ [][MiningNext]_vars

(***************************************************************************)
(* Calls of create_calendar_event on one calendar file.                    *)
(***************************************************************************)
MaxCallers == 2

Callers == 1..MaxCallers
Titles == {"lunch", "review"}

\* the calendar the calls start from
StoredCalendars ==
    {<<>>, <<[id |-> 1, title |-> "standup"]>>,
     <<[id |-> 1, title |-> "standup"], [id |-> 2, title |-> "retro"]>>}

NewCaller == [pc |-> "new", events |-> <<>>, new_id |-> 0, title |-> "none"]

\* max(existing_ids) + 1, or 1 for an empty calendar
NewIdFor(events) ==
    IF events = <<>> THEN 1
    ELSE 1 + CHOOSE m \in {events[i].id : i \in DOMAIN events} :
                 \A i \in DOMAIN events : events[i].id <= m

\* events = load_calendar() and the new id
LoadCalendar(c) ==
    /\ callers[c].pc = "new"
    /\ \E title \in Titles :
          callers' = [callers EXCEPT ![c] =
              [pc |-> "loaded", events |-> calendar_json,
               new_id |-> NewIdFor(calendar_json), title |-> title]]
    /\ UNCHANGED <<exceptCalendar, calendar_json, stored_before>>

\* events.append(new_event); save_calendar(events)
SaveCalendar(c) ==
    /\ callers[c].pc = "loaded"
    /\ calendar_json' =
          Append(callers[c].events, [id |-> callers[c].new_id, title |-> callers[c].title])
    /\ callers' = [callers EXCEPT ![c].pc = "done"]
    /\ UNCHANGED <<exceptCalendar, stored_before>>

CalendarInit ==
    /\ CoreInit
    /\ BatchIdle
    /\ SessionIdle
    /\ BackendIdle
    /\ MiningIdle
    /\ WebsocketIdle
    /\ calendar_json \in StoredCalendars
    /\ stored_before = calendar_json
    /\ callers = [c \in Callers |-> NewCaller]

CalendarNext ==
    \E c \in Callers :
        \/ LoadCalendar(c)
        \/ SaveCalendar(c)

CalendarSpec == CalendarInit /\ [][CalendarNext]_vars

(***************************************************************************)
(* The backend's WebSocketManager: the connections of the sessions and     *)
(* send_to_session.  Each action is a stretch between two awaits.          *)
(***************************************************************************)
MaxSenders == 2

Senders == 1..MaxSenders
ConnectionIds == {"c1", "c2", "c3"}

\* the connection ids (uuid4 values) are named in the order of their arrival
Precedes(a, b) == <<a, b>> \in {<<"c1", "c2">>, <<"c1", "c3">>, <<"c2", "c3">>}

\* no call of send_to_session runs in this place
IdleSend ==
    [pc |-> "idle", session_id |-> "none", owner |-> "none", size |-> 0,
     visited |-> {}, current |-> "none", dead |-> {}, delivered |-> {},
     steady |-> {}]

\* a websocket endpoint that has not been opened
NewEndpoint == [pc |-> "new", session_id |-> "none"]

\* self.session_connections[session_id].add(connection_id), the set created first
\* when the session has none
AddConnection(by_session, session_id, connection_id) ==
    [s \in DOMAIN by_session \cup {session_id} |->
        IF s = session_id
        THEN (IF s \in DOMAIN by_session THEN by_session[s] ELSE {}) \cup {connection_id}
        ELSE by_session[s]]

\* self.session_connections[session_id].discard(...) for each of the ids
DiscardConnections(by_session, session_id, ids) ==
    [s \in DOMAIN by_session |->
        IF s = session_id THEN by_session[s] \ ids ELSE by_session[s]]

\* the sends in progress no longer count the ids among the connections that have
\* been live since they began
Forget(all_sends, ids) ==
    [k \in DOMAIN all_sends |-> [all_sends[k] EXCEPT !.steady = @ \ ids]]

\* the coroutine that called connect goes on when its confirmation send is over:
\* into the endpoint's receive loop, or out of the endpoint with the exception
OwnerGoesOn(rec, to) ==
    endpoints' = IF rec.owner \in ConnectionIds
                 THEN [endpoints EXCEPT ![rec.owner].pc = to]
                 ELSE endpoints

\* send_to_session from the head of its for loop to its next await or to its end.
\* The set iterator raises RuntimeError when the set's size has changed since the
\* loop began; connections that are not in active_connections are passed over; the
\* order of a set's iteration is arbitrary.  After the loop every dead connection
\* is disconnected.
Advance(k, rec, active, by_session) ==
    LET conns == by_session[rec.session_id]
        remaining == conns \ rec.visited
    IN IF Cardinality(conns) # rec.size
       THEN /\ sends' = [sends EXCEPT ![k] = [rec EXCEPT !.pc = "raised",
                                                         !.current = "none"]]
            /\ active_connections' = active
            /\ session_connections' = by_session
            /\ OwnerGoesOn(rec, "crashed")
       ELSE IF remaining \cap active = {}
       THEN /\ sends' = Forget([sends EXCEPT ![k] = [rec EXCEPT !.pc = "done",
                                                                !.current = "none",
                                                                !.visited = conns]],
                               rec.dead)
            /\ active_connections' = active \ rec.dead
            /\ session_connections' =
                  DiscardConnections(by_session, rec.session_id, rec.dead)
            /\ OwnerGoesOn(rec, "open")
       ELSE /\ \E c \in remaining \cap active, skipped \in SUBSET (remaining \ active) :
                  sends' = [sends EXCEPT ![k] =
                      [rec EXCEPT !.pc = "sending", !.current = c,
                                  !.visited = @ \cup skipped \cup {c}]]
            /\ active_connections' = active
            /\ session_connections' = by_session
            /\ UNCHANGED endpoints

\* the locals of send_to_session at the head of its loop
BeginSend(session_id, owner, active, by_session) ==
    [IdleSend EXCEPT !.pc = "loop", !.session_id = session_id, !.owner = owner,
                     !.size = Cardinality(by_session[session_id]),
                     !.steady = by_session[session_id] \cap active]

\* connect after websocket.accept(): the connection is registered and the
\* confirmation is sent to the session, whose set now holds this connection; the
\* call runs to the first await of send_text.
Connect(c, session_id, k) ==
    /\ endpoints[c].pc = "new"
    /\ \A earlier \in ConnectionIds : Precedes(earlier, c) => endpoints[earlier].pc # "new"
    /\ sends[k].pc = "idle"
    /\ LET active == active_connections \cup {c}
           by_session == AddConnection(session_connections, session_id, c)
           conns == by_session[session_id]
           rec == BeginSend(session_id, c, active, by_session)
       IN /\ \E first \in conns \cap active, skipped \in SUBSET (conns \ active) :
                sends' = [sends EXCEPT ![k] =
                    [rec EXCEPT !.pc = "sending", !.current = first,
                                !.visited = skipped \cup {first}]]
          /\ active_connections' = active
          /\ session_connections' = by_session
    /\ endpoints' = [endpoints EXCEPT ![c] =
          [pc |-> "connecting", session_id |-> session_id]]
    /\ UNCHANGED exceptWebsocket

\* the endpoint's receive loop ends: websocket_manager.disconnect(connection_id,
\* session_id)
Disconnect(c) ==
    /\ endpoints[c].pc = "open"
    /\ endpoints' = [endpoints EXCEPT ![c].pc = "closed"]
    /\ active_connections' = active_connections \ {c}
    /\ session_connections' =
          DiscardConnections(session_connections, endpoints[c].session_id, {c})
    /\ sends' = Forget(sends, {c})
    /\ UNCHANGED exceptWebsocket

\* any other coroutine calls send_to_session; a session without a set returns
StartSend(k, session_id) ==
    /\ sends[k].pc = "idle"
    /\ IF session_id \notin DOMAIN session_connections
       THEN UNCHANGED websocketVars
       ELSE Advance(k, BeginSend(session_id, "agent", active_connections,
                                 session_connections),
                    active_connections, session_connections)
    /\ UNCHANGED exceptWebsocket

\* await send_text(message) returns or raises; the loop goes on
SendReturns(k) ==
    /\ sends[k].pc = "sending"
    /\ \E raises \in BOOLEAN :
          Advance(k,
                  IF raises
                  THEN [sends[k] EXCEPT !.dead = @ \cup {sends[k].current}]
                  ELSE [sends[k] EXCEPT !.delivered = @ \cup {sends[k].current}],
                  active_connections, session_connections)
    /\ UNCHANGED exceptWebsocket

\* the caller of send_to_session has its result or its exception
Return(k) ==
    /\ sends[k].pc \in {"done", "raised"}
    /\ sends' = [sends EXCEPT ![k] = IdleSend]
    /\ UNCHANGED <<exceptWebsocket, active_connections, session_connections, endpoints>>

\* WebSocketManager.__init__
WebsocketInit ==
    /\ CoreInit
    /\ BatchIdle
    /\ SessionIdle
    /\ BackendIdle
    /\ MiningIdle
    /\ CalendarIdle
    /\ active_connections = {}
    /\ session_connections = <<>>
    /\ sends = [k \in Senders |-> IdleSend]
    /\ endpoints = [c \in ConnectionIds |-> NewEndpoint]

WebsocketNext ==
    \/ \E c \in ConnectionIds, session_id \in SessionIds, k \in Senders :
          Connect(c, session_id, k)
    \/ \E c \in ConnectionIds : Disconnect(c)
    \/ \E k \in Senders, session_id \in SessionIds : StartSend(k, session_id)
    \/ \E k \in Senders : SendReturns(k)
    \/ \E k \in Senders : Return(k)

WebsocketSpec == WebsocketInit /\ [][WebsocketNext]_vars

(***************************************************************************)
(* Specifications.                                                         *)
(***************************************************************************)
Next ==
    \/ StartGepaMain
    \/ SegmentConversation
    \/ FilterStep
    \/ AnalyzeSegmentWorkflow
    \/ CheckExistingToolCoverage
    \/ CreateOptimizedTool
    \/ SaveTools
    \/ ReloadAfterMining
    \/ ExitAfterMining
    \/ GepaMainExecute
    \/ StartCLI
    \/ UserMessage
    \/ MainModelRaises
    \/ MainModelResponds
    \/ HandleIntelligentToolTriggers
    \/ SubLoopHead
    \/ SubModelRaises
    \/ SubModelResponds
    \/ SubToolCall
    \/ SubFinalCall
    \/ SubReturnToRun
    \/ SubReturnToGepaMain
    \/ ExecuteTools
    \/ FinalResponse
    \/ Close
    \/ CacheThis

Spec == Init /\ [][Next]_vars

\* Inside execute_intelligent_tool the code is sequential and every model call and
\* tool call returns or raises: each enabled step of the sub-loop is eventually taken.
FairSpec ==
    /\ Spec
    /\ WF_vars(SubLoopHead)
    /\ WF_vars(SubModelRaises \/ SubModelResponds)
    /\ WF_vars(SubToolCall)
    /\ WF_vars(SubFinalCall)

TypeOK ==
    /\ pc \in {"off", "prompt", "main_call", "triggers", "general", "final_call",
               "sub", "m_segment", "m_filter", "m_analyze", "m_coverage", "m_create", "m_save",
               "m_done", "exiting"}
    /\ entry \in {"none", "cli", "gepa_main"}
    /\ sub_state \in {"IDLE", "DISPATCHED", "MODEL_CALL", "TOOL_CALL_ROUND"}
                        \cup TerminalStates
    /\ variant \in {"none", "cli", "gepa"}

(***************************************************************************)
(* Properties.                                                             *)
(***************************************************************************)
Range(f) == {f[i] : i \in DOMAIN f}

\* the tool definitions held by the learned-tool store, in memory or on disk
PersistedDefs == StoreDefs(existing_tools) \cup StoreDefs(new_tools_json.content)

\* C1: after a run of process_thread no tool definition of the learned-tool store
\* (existing_tools, new_tools.json) lists create_calendar_event in its tool_sequence.
C1_NoMutatingToolPersisted ==
    pc = "m_done" =>
        \A d \in PersistedDefs : CreateCalendarEvent \notin Range(d.tool_sequence)

ComplexityThreshold == 6

\* an existing tool closely matches the segment: it serves the same objective
CloseMatch(store, objective) == \E d \in StoreDefs(store) : d.objective = objective

\* the decision rule of the coverage check, on the current segment
CreationRule ==
    /\ Get(workflow, "workflow_complexity_score", 0) >= ComplexityThreshold
    /\ Get(workflow, "optimization_potential", "LOW") \in {"MEDIUM", "HIGH"}
    /\ ~CloseMatch(existing_tools, filtered_segments[seg_idx].user_objective_description)
    /\ \/ Get(workflow, "context_dependencies", <<>>) # <<>>
       \/ Get(workflow, "user_had_to_guide_process", FALSE)

\* process_thread puts a tool definition into the store while handling a segment
AddsToolDefinition ==
    /\ pc = "m_create"
    /\ pc' \in {"m_analyze", "m_save"}
    /\ existing_tools' # existing_tools

\* C2: process_thread adds a tool definition for a segment only if complexity >= 6,
\* potential is MEDIUM or HIGH, no existing tool closely matches, and context
\* dependencies exist or user guidance was required.
C2_AddsOnlyUnderCreationRule == [][AddsToolDefinition => CreationRule]_vars

\* C3: a dispatch of a learned tool with max_internal_turns = N issues at most N
\* model invocations that are offered the tool schema, whatever the model answers.
C3_AtMostNSchemaInvocations ==
    pc = "sub" => schema_invocations <= MaxInternalTurns(variant, sub_tool_def)

\* the model requested tools, they were executed, and the dispatch returned
C3_Witness ==
    /\ sub_state = "RESPONDED"
    /\ schema_invocations = 1
    /\ tool_rounds = 1
    /\ MaxInternalTurns(variant, sub_tool_def) > 1

ToolErrorRecorded ==
    \E i \in DOMAIN tool_results :
        tool_results[i].content = "Error executing tool: exception"

C5_NeverEmptyResult ==
    sub_state \in TerminalStates =>
        /\ sub_result \notin {NoneValue, ""}
        /\ sub_state = "EXHAUSTED" => sub_result = ExhaustedMessage

NamedTool(func_name) == Tail(func_name)

\* call i is a trigger call that asks for its tool: should_trigger is true
AsksToTrigger(calls, i) ==
    /\ StartsWithTrigger(calls[i].function)
    /\ calls[i].arguments.parses
    /\ Get(calls[i].arguments.value, "should_trigger", FALSE)

FirstAsking(calls) == MinOf({i \in DOMAIN calls : AsksToTrigger(calls, i)})

DispatchesLearnedTool == pc = "triggers" /\ pc' = "sub"

\* C7: the handler dispatches the tool named by the first trigger call whose
\* should_trigger is true, at most one learned tool per user turn, and in a turn with
\* a dispatch the general path executes no base tool.
C7_DispatchesFirstTrigger ==
    [][/\ DispatchesLearnedTool =>
            turn_dispatched' =
                <<NamedTool(tool_calls[FirstAsking(tool_calls)].function)>>
       /\ Len(turn_dispatched') <= 1
       /\ turn_dispatched' # <<>> => turn_general' = <<>>]_vars

\* a requested trigger call with should_trigger = true names a tool that is absent
MissRequested(calls, store) ==
    \E i \in DOMAIN calls :
        AsksToTrigger(calls, i) /\ NamedTool(calls[i].function) \notin Keys(store)

\* C8: when such a call is requested, the handler raises nothing, dispatches nothing
\* and reports not-triggered: the turn goes on to the general path.
C8_MissFallsThrough ==
    [][(pc = "triggers" /\ MissRequested(tool_calls, intelligent_tools)) =>
          (pc' = "general" /\ turn_dispatched' = <<>>)]_vars

C10_SimpleSegmentsExcluded ==
    pc \in {"m_analyze", "m_coverage", "m_create"} =>
        LET s == filtered_segments[seg_idx] IN
        /\ Get(s, "is_complex_workflow", FALSE)
        /\ ~(/\ Get(s, "user_turns_in_segment", 0) = 1
             /\ Get(s, "assistant_turns_in_segment", 0) = 1)

\* process_thread reaches its end: save_tools() writes the store of this pass
PassCompletes == pc = "m_save" /\ pc' = "m_done"

\* the highest turn number of a thread
MaxTurnOf(thread) ==
    LET ids == {thread.turns[i].turn : i \in DOMAIN thread.turns}
    IN IF ids = {} THEN 0 ELSE CHOOSE m \in ids : \A n \in ids : n <= m

\* C11: a pass over a thread of exactly one user turn and one assistant turn with no
\* tool call ends with the store holding the entries it held before the pass.
C11_SimpleThreadAddsNothing ==
    [][(PassCompletes /\ thread_data = ScenarioBThread) =>
          Keys(existing_tools) = Keys(load_tools)]_vars

\* C12: a pass over the thread that the preceding pass mined leaves the store with
\* as many entries as that first pass left in it.
C12_SecondPassAddsNothing ==
    [][(PassCompletes /\ last_thread = thread_data) =>
          Len(existing_tools) = Len(load_tools)]_vars

\* the store holds an entry whose tool_sequence is, as a set, the tools the segment's
\* turns requested and whose objective is the segment's objective
DuplicateInStore ==
    LET segment == filtered_segments[seg_idx] IN
    \E d \in StoreDefs(existing_tools) :
        /\ Range(Get(d, "tool_sequence", <<>>)) =
               ToolsRequested(SegmentTurns(segment, thread_data))
        /\ Get(d, "objective", NoneValue) = segment.user_objective_description

\* C13: when the store already holds such an entry, check_existing_tool_coverage
\* answers new_tool_needed = False whatever the model answers: process_thread does
\* not go on to create_optimized_tool.
C13_DuplicateNeverNeeded ==
    [][(pc = "m_coverage" /\ DuplicateInStore) => pc' # "m_create"]_vars

\* the turn range of a segment is ordered and lies inside the thread
RangeInsideThread(s, thread) ==
    /\ s.turn_id_for_split_start <= s.turn_id_for_split_end
    /\ 1 <= s.turn_id_for_split_start
    /\ s.turn_id_for_split_end <= MaxTurnOf(thread)

\* C14: every segment that segment_conversation returns has start_turn <= end_turn
\* and both turn ids within [1, highest turn number of the thread].
C14_SegmentsInsideThread ==
    (pc = "m_filter" /\ ~segments.is_none) =>
        \A i \in DOMAIN segments.items :
            RangeInsideThread(segments.items[i], thread_data)

\* the required properties of an item of "segments"
SegmentRequired ==
    {"turn_id_for_split_start", "turn_id_for_split_end", "user_objective_description",
     "is_complex_workflow"}

Malformed(s) == ~(SegmentRequired \subseteq DOMAIN s)

\* two items of a segment list share a turn
Overlapping(segs) ==
    \E i, j \in DOMAIN segs :
        /\ i < j
        /\ segs[i].turn_id_for_split_start <= segs[j].turn_id_for_split_end
        /\ segs[j].turn_id_for_split_start <= segs[i].turn_id_for_split_end

\* C15: segment_conversation never returns overlapping segments or a malformed one:
\* for such a model answer it returns the empty list.
C15_OverlapOrMalformedGivesEmpty ==
    pc = "m_filter" =>
        /\ ~segments.is_none
        /\ ~Overlapping(segments.items)
        /\ \A i \in DOMAIN segments.items : ~Malformed(segments.items[i])

\* segment_conversation came back without segments: an empty list (no tool call,
\* unparsable arguments, or an empty answer) or a malformed "segments"
SegmentationFailed == pc = "m_filter" /\ (segments.is_none \/ segments.items = <<>>)

\* C18: after a failed or empty segmentation process_thread goes on to its end
\* without raising, and it saves the mapping the store held before the pass.
C18_FailedSegmentationIsNoOp ==
    [][/\ SegmentationFailed => (pc' = "m_save" /\ existing_tools' = existing_tools)
       /\ (PassCompletes /\ filtered_segments = <<>>) =>
              new_tools_json'.content = load_tools]_vars

\* the positions inside process_thread and the operations it calls
InsideProcessThread ==
    pc \in {"m_segment", "m_filter", "m_analyze", "m_coverage", "m_create", "m_save"}

\* C16: no exception of a model call or of file I/O escapes the miner's public
\* operations: process_thread is never left by an exception (the only step that
\* ends the program from inside process_thread), it always reaches its end.
C16_NoExceptionEscapesMiner == [][InsideProcessThread => pc' # "off"]_vars

\* C17: when create_optimized_tool returns no valid definition for a segment,
\* process_thread skips that segment only: the store and the segment list are left
\* as they are and the loop goes on to the next complex segment (to save_tools after
\* the last one); the pass ends by persisting the store it built.
C17_FailedSynthesisSkipsSegment ==
    [][/\ (pc = "m_create" /\ tool_creation_failed') =>
              /\ existing_tools' = existing_tools
              /\ filtered_segments' = filtered_segments
              /\ seg_idx' = seg_idx + 1
              /\ pc' = IF seg_idx < Len(filtered_segments) THEN "m_analyze"
                       ELSE "m_save"
       /\ PassCompletes => new_tools_json'.content = existing_tools]_vars

\* synthesis failed for the first segment and the second one is up for analysis
C17_Witness ==
    /\ pc = "m_analyze"
    /\ tool_creation_failed
    /\ seg_idx = 2

\* "max_internal_turns": {"type": "integer", "maximum": 3}
MaxInternalTurnsAllowed == 3

\* C19: every tool definition that process_thread persisted has max_internal_turns
\* <= 3 (a definition that gives none is let pass here).
C19_PersistedTurnsAtMostThree ==
    pc = "m_done" =>
        \A d \in PersistedDefs :
            Get(d, "max_internal_turns", 0) <= MaxInternalTurnsAllowed

\* the optimization_potential of the current segment's analysis, None when missing
Potential == Get(workflow, "optimization_potential", NoneValue)

\* C20: process_thread is at the coverage check or at the synthesis of a segment only
\* after its analysis returned optimization_potential MEDIUM or HIGH, and only then
\* does the segment add a tool definition, whatever the complexity score.
C20_OnlyMediumOrHighProceeds ==
    [][/\ pc' \in {"m_coverage", "m_create"} =>
              Get(workflow', "optimization_potential", NoneValue) \in {"MEDIUM", "HIGH"}
       /\ AddsToolDefinition => Potential \in {"MEDIUM", "HIGH"}]_vars

\* a segment of low complexity but MEDIUM potential reached the synthesis
C20_Witness ==
    /\ pc = "m_create"
    /\ Potential = "MEDIUM"
    /\ workflow.workflow_complexity_score = 3

\* the positions of the calls of a batch that are not trigger calls, ascending
BasePositions(calls) ==
    LET IsBase(i) == ~StartsWithTrigger(calls[i].function)
    IN SelectSeq([i \in DOMAIN calls |-> i], IsBase)

AllArgumentsParse(calls) == \A i \in DOMAIN calls : calls[i].arguments.parses

C22_ExecuteToolsNeverRaises == b_state # "raised"

\* C23: execute_tools returns exactly one record per requested call, in the order of
\* the calls, each carrying the id of the call at its position.
C23_OneRecordPerCall ==
    (b_variant = "cli" /\ b_state = "returned") =>
        /\ Len(b_results) = Len(b_calls)
        /\ \A i \in DOMAIN b_results : b_results[i].tool_call_id = i

\* the turns of a written file, re-parsed as process_thread reads them
LoadedTurns(name) == LoadThread(s_files[name]).turns

\* C24: for every conversation, save_thread writes a thread whose re-parsed form
\* has the turns of the conversation: as many, in the same order, each tool_result
\* turn with the same success flag.
C24_RoundTrip ==
    (s_pc # "call") =>
        /\ s_pc = "returned"
        /\ LET turns == TurnsFrom(s_conversation, 1, 1)
               loaded == LoadedTurns(most_recent_thread)
           IN /\ Len(loaded) = Len(turns)
              /\ \A i \in DOMAIN turns :
                    /\ loaded[i].turn = turns[i].turn
                    /\ loaded[i].type = turns[i].type
                    /\ (turns[i].type = "tool_result")
                          => (loaded[i].success = turns[i].success)

\* C25: in every written thread metadata.success is true exactly when every
\* tool_result turn has success = true; the text of the user's and the assistant's
\* turns has no part in it.
C25_SuccessFromToolResultsOnly ==
    \A name \in DOMAIN s_files :
        LET data == LoadThread(s_files[name]) IN
        data.metadata.success
            <=> (\A i \in DOMAIN data.turns :
                    (data.turns[i].type = "tool_result") => data.turns[i].success)

\* C26: in every written thread the turn numbers are 1, 2, ... in list order
\* without a gap, metadata.total_turns is the last of them, and there are as many
\* turns as messages of the roles user, assistant and tool: a message of another
\* role takes no number.
C26_TurnNumbersDense ==
    \A name \in DOMAIN s_files :
        LET data == LoadThread(s_files[name]) IN
        /\ \A i \in DOMAIN data.turns : data.turns[i].turn = i
        /\ data.metadata.total_turns = Len(data.turns)
        /\ Len(data.turns) =
              Cardinality({i \in DOMAIN s_conversation :
                              s_conversation[i].role \in {"user", "assistant", "tool"}})

\* a system message between two turns: the assistant's answer is turn 2
C26_Witness ==
    /\ s_pc = "returned"
    /\ s_conversation = <<UserMsg("hello"), SystemMsg, AssistantDict("answer")>>
    /\ Len(LoadedTurns(most_recent_thread)) = 2
    /\ LoadedTurns(most_recent_thread)[2].turn = 2
    /\ LoadedTurns(most_recent_thread)[2].type = "assistant_response"

\* C27: a session writes its conversation once, as it completes, and no step
\* changes a file that is written: a step that changes example_threads/ writes the
\* first file of the session and ends the session.
C27_WrittenOnceNeverChanged ==
    [][s_files' # s_files => (DOMAIN s_files = {} /\ s_pc' = "closed")]_vars

\* every user message but the last of a list is followed by the reply to it
TurnsCompleted(messages) ==
    \A i \in 1..(Len(messages) - 1) :
        (messages[i].role = "user") => (messages[i + 1].role # "user")

\* C28: within one session no two model calls are in flight at once, and the message
\* list a turn's first model call is given ends with that turn's user message, every
\* earlier turn in it complete.
C28_OneModelCallPerSession ==
    /\ \A session_id \in SessionIds : Cardinality(InFlight(session_id)) <= 1
    /\ \A r \in DOMAIN requests :
          (requests[r].pc = "model_call") =>
              /\ requests[r].seen[Len(requests[r].seen)] = RequestMsg("user", r)
              /\ TurnsCompleted(requests[r].seen)

\* C29: when both mining passes have finished, the store file holds every tool that
\* either of them persisted.
C29_NoLostToolOfConcurrentPasses ==
    (\A p \in DOMAIN passes : passes[p].pc = "done") =>
        (\A p \in DOMAIN passes : passes[p].created \subseteq shared_tools_file)

\* C30: after k calls of create_calendar_event have finished, the calendar holds
\* the events it held before, then k new ones, and no two events of it have the
\* same id.
C30_CalendarWritesSerialized ==
    LET finished == {c \in DOMAIN callers : callers[c].pc = "done"} IN
    /\ Len(calendar_json) = Len(stored_before) + Cardinality(finished)
    /\ \A i \in DOMAIN stored_before : calendar_json[i] = stored_before[i]
    /\ \A i, j \in DOMAIN calendar_json :
          (i # j) => (calendar_json[i].id # calendar_json[j].id)

\* a model call of request r raised: its error message is the last message the
\* request added to the list process_gepa_message bound
ModelCallRaised(r) ==
    /\ requests[r].conversation # NoList
    /\ \E i \in 1..Len(conversation_lists[requests[r].conversation]) :
          /\ conversation_lists[requests[r].conversation][i] = RequestMsg("error", r)
          /\ conversation_lists[requests[r].conversation][i - 1]
                 # RequestMsg("assistant_tool_calls", r)

\* C31: a model call that raises during a user turn leaves the session active: the
\* request whose model call raised never goes on to delete its session from
\* active_conversations, so the next user message continues the same conversation
C31_SessionSurvivesModelError ==
    [][\A r \in Requests :
          ModelCallRaised(r) =>
             ~(requests[r].pc = "clean_up" /\ requests'[r].pc = "done")]_vars

\* C32: while a learned tool's sub-loop runs, only read tools are executed:
\* execute_intelligent_tool never invokes create_calendar_event, whatever the
\* model requests
C32_SubLoopNeverCreatesEvents ==
    pc = "sub" =>
       \A i \in DOMAIN tool_results : tool_results[i].name # CreateCalendarEvent

\* C33: every session close persists the conversation and then mines the persisted
\* thread, flushes the store and reloads: a session that holds a conversation never
\* ends from the prompt without entering the mining pass
C33_CloseMinesPersistedThread ==
    [][~(pc = "prompt" /\ conversation /\ pc' = "off")]_vars

\* C34: a mining pass upserts by tool_name: a step of process_thread that changes
\* the store writes one entry under a key equal to the entry's own non-empty
\* tool_name, leaves every entry under another key as it was, and lets the store
\* grow by one only when that key is new
C34_UpsertByToolName ==
    [][(InsideProcessThread /\ pc' # "off" /\ existing_tools' # existing_tools) =>
          \E k \in Keys(existing_tools') :
             /\ k # <<>>
             /\ Lookup(existing_tools', k).tool_name = k
             /\ \A i \in DOMAIN existing_tools :
                   existing_tools'[i].key = existing_tools[i].key
                   /\ (existing_tools[i].key # k => existing_tools'[i] = existing_tools[i])
             /\ Len(existing_tools') =
                   Len(existing_tools) + (IF k \in Keys(existing_tools) THEN 0 ELSE 1)
             /\ Cardinality(Keys(existing_tools')) = Len(existing_tools')]_vars

\* a pass is about to write a store in which it has replaced an entry and added one
C34_Witness ==
    /\ pc = "m_save"
    /\ Len(existing_tools) = Len(load_tools) + 1
    /\ \E i \in DOMAIN load_tools : existing_tools[i] # load_tools[i]

\* C35: for every tool_name that is a key of the dispatcher's store, the name
\* recovered from the function name "trigger_" + tool_name is tool_name again, also
\* for a tool_name that itself contains "trigger_"
C35_TriggerNameRoundTrip ==
    \A tool_name \in Keys(intelligent_tools) :
        RecoverToolName(TriggerFunctionName(tool_name)) = tool_name

\* every assistant message that requested tool calls is followed by one tool
\* message per requested call, in the order of the call ids
AllToolCallsAnswered(messages) ==
    \A i \in DOMAIN messages :
        (messages[i].role = "assistant" /\ IsMessageObject(messages[i])) =>
           \A k \in DOMAIN messages[i].tool_calls :
              /\ i + k <= Len(messages)
              /\ messages[i + k].role = "tool"
              /\ messages[i + k].tool_call_id = k

\* C36: whenever run() is about to take a user message and invoke the model on the
\* conversation, no assistant message in the list has a tool call without its
\* tool-result message, also after a turn that dispatched a learned tool and after a
\* turn whose only call was a trigger with should_trigger = false
C36_NoToolCallLeftUnanswered ==
    s_pc = "input" => AllToolCallsAnswered(s_conversation)

\* C37: process_thread writes the durable store exactly once, in the step that ends
\* the pass after the last segment, and writes the whole in-memory store; a pass
\* that an exception ends leaves the durable store as it was before the pass
C37_StoreWrittenOnceAtEnd ==
    [][/\ new_tools_json' # new_tools_json =>
             (PassCompletes /\ seg_idx > Len(filtered_segments))
       /\ PassCompletes => new_tools_json' = [exists |-> TRUE, content |-> existing_tools]
       /\ (InsideProcessThread /\ pc' = "off") => new_tools_json' = new_tools_json]_vars

\* a pass has put a tool of its first segment into the in-memory store and is at
\* work on its second segment, where a model call may raise
C37_Witness ==
    /\ pc \in {"m_analyze", "m_coverage", "m_create"}
    /\ seg_idx = 2
    /\ existing_tools # load_tools

\* C38 as stated: a round of tool calls is always followed by the final-answer call:
\* the round is left only after its last call has been executed
C38_RoundAlwaysEndsInFinalCall ==
    [][(pc = "sub" /\ sub_state = "TOOL_CALL_ROUND" /\ sub_state' # "TOOL_CALL_ROUND") =>
          sub_idx > Len(sub_calls)]_vars

\* C38: a dispatch executes at most one round of tool calls whatever
\* max_internal_turns is, and issues at most one model call that is offered the
\* tools; the round is left either by the one final-answer call, which is offered no
\* tools and ends the dispatch, or by an exception, which ends the dispatch with the
\* failure message; the exhaustion sentinel is returned only when
\* max_internal_turns <= 0
C38_AtMostOneToolRound ==
    /\ [](pc = "sub" =>
            /\ tool_rounds <= 1
            /\ schema_invocations <= 1
            /\ turn = 0
            /\ sub_state = "EXHAUSTED" => MaxInternalTurns(variant, sub_tool_def) <= 0)
    /\ [][(pc = "sub" /\ sub_state = "TOOL_CALL_ROUND"
                      /\ sub_state' # "TOOL_CALL_ROUND") =>
             /\ sub_state' \in {"RESPONDED", "FAILED"}
             /\ schema_invocations' = schema_invocations
             /\ sub_idx <= Len(sub_calls) => sub_state' = "FAILED"]_vars

\* a dispatch that allows more than one internal turn has answered after exactly
\* one round of tool calls
C38_Witness ==
    /\ pc = "sub"
    /\ sub_state = "RESPONDED"
    /\ tool_rounds = 1
    /\ MaxInternalTurns(variant, sub_tool_def) > 1

SendEnds(k) ==
    /\ sends[k].pc \in {"idle", "sending"}
    /\ sends'[k].pc \in {"done", "raised"}

\* C40: when a call of send_to_session ends, every connection of the session that
\* has been live since the call began has been sent the message or has failed, the
\* connections whose send failed are in neither active_connections nor the
\* session's set, and the sets of the other sessions are as they were; connects and
\* disconnects of the same session may run in between
C40_SendReachesEveryLiveConnection ==
    [][\A k \in Senders :
          SendEnds(k) =>
             /\ sends'[k].steady \subseteq sends'[k].delivered \cup sends'[k].dead
             /\ sends'[k].dead \cap active_connections' = {}
             /\ sends'[k].dead \cap session_connections'[sends'[k].session_id] = {}
             /\ \A s \in DOMAIN session_connections \ {sends'[k].session_id} :
                   session_connections'[s] = session_connections[s]]_vars
====
